---- MODULE Spec2Model ----
(***************************************************************************)
(* Model of ks::BigInt (src/src/bigint.hpp, src/src/bigint.cpp).           *)
(*                                                                         *)
(* A BigInt is a record [data, negative]: data is the limb vector data_,   *)
(* least-significant limb first (data[i+1] is the C++ data_[i]), negative  *)
(* is the flag negative_.                                                  *)
(*                                                                         *)
(* TLC's integers are 32 bits wide, so the radix is scaled from 10^9 to    *)
(* 10^2 (one limb holds 2 decimal digits instead of 9) and the two machine *)
(* words are scaled with it: Digit (uint32_t, 2^32 ~ 4.29 * 10^9) wraps at *)
(* 4 * BASE and DoubleDigit (uint64_t, 2^64 ~ 18.4 * 10^18) wraps at       *)
(* 18 * BASE * BASE.  Every expression is evaluated in the word the source *)
(* evaluates it in, with the wrap-around of that word.                     *)
(***************************************************************************)
EXTENDS Integers, Sequences, FiniteSets, TLC

\* ------------------------------------------------------------------------
\* Program constants and machine words
\* ------------------------------------------------------------------------

\* BigInt::BASE, the radix of one limb (scaled, see above).
BASE == 100

\* BigInt::DIGIT_BITS, the number of decimal digits of one limb.
DIGIT_BITS == 2

\* using Digit = uint32_t: the modulus of the limb word.
DigitMod == 4 * BASE

\* using DoubleDigit = uint64_t: the modulus of the double-limb word.
DoubleDigitMod == 18 * BASE * BASE

\* static_cast<Digit>(x)
ToDigit(x) == x % DigitMod

\* an expression evaluated in DoubleDigit arithmetic
ToDouble(x) == x % DoubleDigitMod

\* ------------------------------------------------------------------------
\* Bounds of the model
\* ------------------------------------------------------------------------

\* largest limb count of the operands drawn in Init (products and sums
\* assigned to a have up to twice as many plus one)
MaxLimbs == 2

\* limb values the operands are built from: zero, a small limb (scale
\* factor d > 1, padded by to_string), and the largest limb (d = 1, carries)
LimbSamples == {0, 7, BASE - 1}

\* further single-limb operands
SmallSamples == {2, 3, 10}

\* the longest string given to from_string
MaxStrLen == 5

\* the largest limb count of an exponent given to pow (the base is squared
\* once for every halving of the exponent)
MaxExpLimbs == 1

\* ------------------------------------------------------------------------
\* Construction
\* ------------------------------------------------------------------------

MkBigInt(d, n) == [data |-> d, negative |-> n]

\* BigInt::BigInt(): data_{0}, negative_{false}
BigIntDefault == MkBigInt(<<0>>, FALSE)

\* the limb loop of the integer constructors: while (val > 0) push val % BASE
RECURSIVE LimbsOf(_)
LimbsOf(val) == IF val > 0 THEN <<ToDigit(val % BASE)>> \o LimbsOf(val \div BASE) ELSE <<>>

\* BigInt::BigInt(uint64_t val)
BigIntFromU64(val) == IF val = 0 THEN MkBigInt(<<0>>, FALSE) ELSE MkBigInt(LimbsOf(val), FALSE)

\* BigInt::BigInt(int64_t val)
BigIntFromI64(val) ==
    LET abs_val == IF val < 0 THEN -val ELSE val
    IN  IF abs_val = 0 THEN MkBigInt(<<0>>, FALSE) ELSE MkBigInt(LimbsOf(abs_val), val < 0)

\* ------------------------------------------------------------------------
\* Private helpers
\* ------------------------------------------------------------------------

\* the loop of trim(): while (size > 1 && back == 0) pop_back
RECURSIVE PopZeros(_)
PopZeros(d) ==
    IF Len(d) > 1 /\ d[Len(d)] = 0 THEN PopZeros(SubSeq(d, 1, Len(d) - 1)) ELSE d

\* a trim() that pops nothing
trim_nopop(x) ==
    LET d2 == IF x.data = <<>> THEN <<0>> ELSE x.data
    IN  MkBigInt(d2, IF Len(d2) = 1 /\ d2[1] = 0 THEN FALSE ELSE x.negative)

\* BigInt::trim()
trim(x) ==
    LET d1 == PopZeros(x.data)
        d2 == IF d1 = <<>> THEN <<0>> ELSE d1
        n2 == IF d1 = <<>> THEN FALSE ELSE x.negative
    IN  MkBigInt(d2, IF Len(d2) = 1 /\ d2[1] = 0 THEN FALSE ELSE n2)

\* BigInt::is_zero()
is_zero(x) == Len(x.data) = 1 /\ x.data[1] = 0

\* the limb loop of abs_less and operator<: i runs from size down to 1
RECURSIVE FirstDiff(_, _, _)
FirstDiff(x, y, i) ==
    IF i = 0 THEN 0 ELSE IF x[i] # y[i] THEN i ELSE FirstDiff(x, y, i - 1)

\* BigInt::abs_less(other)
abs_less(x, other) ==
    IF Len(x.data) # Len(other.data) THEN Len(x.data) < Len(other.data)
    ELSE LET i == FirstDiff(x.data, other.data, Len(x.data))
         IN  IF i = 0 THEN FALSE ELSE x.data[i] < other.data[i]

\* BigInt::abs()
abs(x) == MkBigInt(x.data, FALSE)

Max(x, y) == IF x > y THEN x ELSE y

\* the loop of unsigned_add; i is the C++ index, acc is result.data_
RECURSIVE AddLoop(_, _, _, _, _)
AddLoop(da, db, i, carry, acc) ==
    IF i < Max(Len(da), Len(db)) \/ carry # 0
    THEN LET x   == IF i < Len(da) THEN da[i + 1] ELSE 0
             y   == IF i < Len(db) THEN db[i + 1] ELSE 0
             sum == ToDouble(x + y + carry)
         IN  AddLoop(da, db, i + 1, sum \div BASE, Append(acc, ToDigit(sum % BASE)))
    ELSE acc

\* an unsigned_add that drops the final carry
unsigned_add_nocarry(a, b) ==
    LET full == AddLoop(a.data, b.data, 0, 0, <<>>)
        n    == Max(Len(a.data), Len(b.data))
    IN  trim(MkBigInt(SubSeq(full, 1, n), FALSE))

\* BigInt::unsigned_add(a, b)
unsigned_add(a, b) == trim(MkBigInt(AddLoop(a.data, b.data, 0, 0, <<>>), FALSE))

\* the loop of unsigned_sub
RECURSIVE SubLoop(_, _, _, _, _)
SubLoop(da, db, i, borrow, acc) ==
    IF i < Len(da)
    THEN LET x    == da[i + 1]
             y    == IF i < Len(db) THEN db[i + 1] ELSE 0
             diff == ToDouble(x - y - borrow)
             under == diff > x
             dif2 == IF under THEN ToDouble(diff + BASE) ELSE diff
         IN  SubLoop(da, db, i + 1, IF under THEN 1 ELSE 0, Append(acc, ToDigit(dif2)))
    ELSE acc

\* BigInt::unsigned_sub(a, b), requires |a| >= |b|
unsigned_sub(a, b) == trim(MkBigInt(SubLoop(a.data, b.data, 0, 0, <<>>), FALSE))

\* a vector of n zero limbs: assign(n, 0), resize(n, 0)
RECURSIVE Zeros(_)
Zeros(n) == IF n <= 0 THEN <<>> ELSE Append(Zeros(n - 1), 0)

\* the inner loop of unsigned_mul over j, for one limb i of a
RECURSIVE MulInner(_, _, _, _, _, _)
MulInner(da, db, i, j, carry, res) ==
    IF j < Len(db)
    THEN LET product == ToDouble(da[i + 1] * db[j + 1] + res[i + j + 1] + carry)
         IN  MulInner(da, db, i, j + 1, product \div BASE,
                      [res EXCEPT ![i + j + 1] = ToDigit(product % BASE)])
    ELSE IF carry # 0
         THEN [res EXCEPT ![i + Len(db) + 1] = ToDigit(@ + ToDigit(carry))]
         ELSE res

\* the outer loop of unsigned_mul over i
RECURSIVE MulOuter(_, _, _, _)
MulOuter(da, db, i, res) ==
    IF i < Len(da) THEN MulOuter(da, db, i + 1, MulInner(da, db, i, 0, 0, res)) ELSE res

\* BigInt::unsigned_mul(a, b)
unsigned_mul(a, b) ==
    trim(MkBigInt(MulOuter(a.data, b.data, 0,
                           Zeros(Len(a.data) + Len(b.data))), FALSE))

\* ------------------------------------------------------------------------
\* Knuth long division (unsigned_div_mod)
\* ------------------------------------------------------------------------

\* x[idx] for a C++ index idx of vector x; an index outside the vector (the
\* size_t value n - 2 or j + n - 2 wrapped below zero) reads whatever the
\* memory holds, the value g
At(x, idx, g) == IF idx >= 0 /\ idx < Len(x) THEN x[idx + 1] ELSE g

\* values a read of a Digit outside a vector can give: the smallest, a
\* limb, the largest
Garbage == {0, BASE - 1, DigitMod - 1}

\* what the reads outside u and v can give in unsigned_div_mod(x, y): they
\* happen when the divisor has one limb (n - 2 wraps) and the main loop
\* runs (the dividend has more limbs); otherwise nothing is read, and the
\* value is irrelevant
Outside(x, y) == IF Len(y.data) = 1 /\ Len(x.data) > 1 THEN Garbage ELSE {0}

\* the scaling loops: carry += x[i] * d; x[i] = carry % BASE; carry /= BASE
RECURSIVE ScaleLoop(_, _, _, _)
ScaleLoop(x, d, i, carry) ==
    IF i < Len(x)
    THEN LET c == ToDouble(carry + x[i + 1] * d)
         IN  ScaleLoop([x EXCEPT ![i + 1] = ToDigit(c % BASE)], d, i + 1, c \div BASE)
    ELSE [digits |-> x, carry |-> carry]

\* if (carry) u.push_back(carry), after the scaling loop of u
PushCarry(su) == IF su.carry # 0 THEN Append(su.digits, ToDigit(su.carry)) ELSE su.digits

\* the correction loop: while (qhat * v[n-2] > (rhat * BASE + u[j+n-2])) --qhat
RECURSIVE AdjustQhat(_, _, _, _, _, _)
AdjustQhat(qhat, vn2, ujn, ujn1, ujn2, vback) ==
    IF ToDouble(qhat * vn2) > ToDouble((ujn * BASE + ujn1 - qhat * vback) * BASE + ujn2)
    THEN AdjustQhat(ToDouble(qhat - 1), vn2, ujn, ujn1, ujn2, vback)
    ELSE qhat

\* the trial quotient digit from the top two limbs of the window
TrialQhat(u, v, j) ==
    IF u[j + Len(v) + 1] >= v[Len(v)] THEN BASE - 1
    ELSE ToDouble(u[j + Len(v) + 1] * BASE + u[j + Len(v)]) \div v[Len(v)]

\* the multiply-and-subtract loop over i < n
RECURSIVE MulSubLoop(_, _, _, _, _, _, _)
MulSubLoop(u, v, qhat, j, i, carry, borrow) ==
    IF i < Len(v)
    THEN LET prod == ToDouble(qhat * v[i + 1] + carry)
             sub  == ToDouble(u[j + i + 1] - ToDigit(prod % BASE) - borrow)
         IN  IF sub > u[j + i + 1]
             THEN MulSubLoop([u EXCEPT ![j + i + 1] = ToDigit(ToDouble(sub + BASE))],
                             v, qhat, j, i + 1, prod \div BASE, 1)
             ELSE MulSubLoop([u EXCEPT ![j + i + 1] = ToDigit(sub)],
                             v, qhat, j, i + 1, prod \div BASE, 0)
    ELSE [u |-> u, carry |-> carry, borrow |-> borrow]

\* the add-back loop over i < n
RECURSIVE AddBackLoop(_, _, _, _, _)
AddBackLoop(u, v, j, i, carry) ==
    IF i < Len(v)
    THEN LET sum == ToDouble(u[j + i + 1] + v[i + 1] + carry)
         IN  AddBackLoop([u EXCEPT ![j + i + 1] = ToDigit(sum % BASE)], v, j, i + 1,
                         sum \div BASE)
    ELSE [u |-> u, carry |-> carry]

\* if (borrow): --qhat, and u[j+n] += carry after the add-back loop ab
AddBack(ab, top, qhat) ==
    [u |-> [ab.u EXCEPT ![top] = ToDigit(@ + ToDigit(ab.carry))],
     digit |-> ToDigit(ToDouble(qhat - 1))]

\* the top limb of the window after the loop ms: final_sub = u[j+n] - carry -
\* borrow, plus BASE and a borrow when that wrapped; then the add-back
SubtractTop(ms, v, j, qhat, final_sub) ==
    IF final_sub > ms.u[j + Len(v) + 1]
    THEN AddBack(AddBackLoop([ms.u EXCEPT ![j + Len(v) + 1] = ToDigit(ToDouble(final_sub + BASE))],
                             v, j, 0, 0),
                 j + Len(v) + 1, qhat)
    ELSE [u |-> [ms.u EXCEPT ![j + Len(v) + 1] = ToDigit(final_sub)], digit |-> ToDigit(qhat)]

\* multiply and subtract qhat * v from the window at j
MulSub(ms, v, j, qhat) ==
    SubtractTop(ms, v, j, qhat, ToDouble(ms.u[j + Len(v) + 1] - ms.carry - ms.borrow))

\* one pass of the main loop with the corrected digit qhat
DivStepWith(u, v, j, qhat) == MulSub(MulSubLoop(u, v, qhat, j, 0, 0, 0), v, j, qhat)

\* one pass of the main loop, for quotient position j: the new u and the digit
DivStep(u, v, j, gv, gu) ==
    DivStepWith(u, v, j,
                AdjustQhat(TrialQhat(u, v, j), At(v, Len(v) - 2, gv), u[j + Len(v) + 1],
                           u[j + Len(v)], At(u, j + Len(v) - 2, gu), v[Len(v)]))

\* the main loop: for (j = m - n + 1; j-- > 0; ); jj is j before the decrement
RECURSIVE DivLoop(_, _, _, _, _, _)

\* quotient.data_[j] = qhat, and the next pass
DivLoopStore(st, v, jj, q, gv, gu) ==
    DivLoop(st.u, v, jj - 1, [q EXCEPT ![jj] = st.digit], gv, gu)

DivLoop(u, v, jj, q, gv, gu) ==
    IF jj > 0 THEN DivLoopStore(DivStep(u, v, jj - 1, gv, gu), v, jj, q, gv, gu)
    ELSE [u |-> u, q |-> q]

\* the unscaling loop of the remainder: i runs from size down to 1
RECURSIVE UnscaleLoop(_, _, _, _)
UnscaleLoop(x, d, i, carry) ==
    IF i > 0
    THEN LET cur == ToDouble(carry * BASE + x[i])
         IN  UnscaleLoop([x EXCEPT ![i] = ToDigit(cur \div d)], d, i - 1, cur % d)
    ELSE x

\* the remainder divided by d
Unscale(rem, d) ==
    IF d > 1 THEN trim(MkBigInt(UnscaleLoop(rem.data, d, Len(rem.data), 0), FALSE))
    ELSE rem

\* the quotient trimmed and the remainder taken from the n low limbs of u
DivResult(lp, n, d) ==
    [q |-> trim(MkBigInt(lp.q, FALSE)),
     r |-> Unscale(trim(MkBigInt(SubSeq(lp.u, 1, n), FALSE)), d)]

\* the main loop over the scaled u and v; m is the size of a minus 1
DivScaled(u, v, m, d, gv, gu) ==
    DivResult(DivLoop(u, v, m - Len(v) + 1, Zeros(m - Len(v) + 1), gv, gu), Len(v), d)

\* normalisation by d = BASE / (v.back() + 1)
DivNormalize(ad, bd, d, gv, gu) ==
    IF d > 1
    THEN DivScaled(PushCarry(ScaleLoop(ad, d, 0, 0)), ScaleLoop(bd, d, 0, 0).digits,
                   Len(ad) - 1, d, gv, gu)
    ELSE DivScaled(ad, bd, Len(ad) - 1, d, gv, gu)

\* BigInt::unsigned_div_mod(a, b), b nonzero; gv and gu are what the reads of
\* v[n-2] and u[j+n-2] give when the index is outside the vector
unsigned_div_mod(a, b, gv, gu) ==
    IF abs_less(a, b) THEN [q |-> BigIntFromI64(0), r |-> a]
    ELSE DivNormalize(a.data, b.data, ToDigit(BASE \div ToDigit(b.data[Len(b.data)] + 1)),
                      gv, gu)

\* ------------------------------------------------------------------------
\* Comparison operators
\* ------------------------------------------------------------------------

\* BigInt::operator==
Eq(x, other) ==
    IF x.negative # other.negative \/ Len(x.data) # Len(other.data) THEN FALSE
    ELSE x.data = other.data

\* BigInt::operator!=
Ne(x, other) == ~Eq(x, other)

\* BigInt::operator<
Lt(x, other) ==
    IF x.negative # other.negative THEN x.negative
    ELSE IF Len(x.data) # Len(other.data)
         THEN IF x.negative THEN Len(x.data) > Len(other.data)
                            ELSE Len(x.data) < Len(other.data)
         ELSE LET i == FirstDiff(x.data, other.data, Len(x.data))
              IN  IF i = 0 THEN FALSE
                  ELSE IF x.negative THEN x.data[i] > other.data[i]
                                     ELSE x.data[i] < other.data[i]

\* BigInt::operator<=
Le(x, other) == Lt(x, other) \/ Eq(x, other)

\* BigInt::operator>
Gt(x, other) == Lt(other, x)

\* BigInt::operator>=
Ge(x, other) == ~Lt(x, other)

\* ------------------------------------------------------------------------
\* Arithmetic operators
\* ------------------------------------------------------------------------

\* BigInt::operator-() (unary)
Neg(x) == IF ~is_zero(x) THEN MkBigInt(x.data, ~x.negative) ELSE x

\* BigInt::operator+
Add(x, other) ==
    IF x.negative = other.negative
    THEN MkBigInt(unsigned_add(x, other).data, x.negative)
    ELSE IF abs_less(x, other)
         THEN MkBigInt(unsigned_sub(other, x).data, other.negative)
         ELSE MkBigInt(unsigned_sub(x, other).data, x.negative)

\* BigInt::operator-
Sub(x, other) == Add(x, Neg(other))

\* an operator* whose result is never negative
Mul_nosign(x, other) ==
    IF is_zero(x) \/ is_zero(other) THEN BigIntFromI64(0)
    ELSE MkBigInt(unsigned_mul(x, other).data, FALSE)

\* BigInt::operator*
Mul(x, other) ==
    IF is_zero(x) \/ is_zero(other) THEN BigIntFromI64(0)
    ELSE MkBigInt(unsigned_mul(x, other).data, x.negative # other.negative)

\* BigInt::operator/, other nonzero (a zero divisor aborts in check)
Div(x, other, gv, gu) ==
    trim(MkBigInt(unsigned_div_mod(abs(x), abs(other), gv, gu).q.data,
                  x.negative # other.negative))

\* the sign adjustment of operator%: the kernel remainder rem of a
\* negative dividend is replaced by |other| - rem, then given the sign of x
ModSign(x, other, rem) ==
    IF x.negative /\ ~is_zero(rem)
    THEN trim(MkBigInt(Sub(abs(other), rem).data, x.negative))
    ELSE trim(MkBigInt(rem.data, x.negative))

\* BigInt::operator%, other nonzero (a zero divisor aborts in check)
Mod(x, other, gv, gu) == ModSign(x, other, unsigned_div_mod(abs(x), abs(other), gv, gu).r)

\* Result<BigInt, String>: ok(value) or err(message)
Ok(v) == [ok |-> TRUE, value |-> v, error |-> ""]
Err(msg) == [ok |-> FALSE, value |-> BigIntDefault, error |-> msg]

\* the loop of pow: while (!exp.is_zero()); G[k] is what the reads outside
\* the vectors give in the division of a k-limb exp by BigInt(2)
RECURSIVE PowLoop(_, _, _, _)
PowLoop(base, exp, result, G) ==
    IF ~is_zero(exp)
    THEN PowLoop(Mul(base, base),
                 Div(exp, BigIntFromI64(2),
                     IF Len(exp.data) \in DOMAIN G THEN G[Len(exp.data)][1] ELSE 0,
                     IF Len(exp.data) \in DOMAIN G THEN G[Len(exp.data)][2] ELSE 0),
                 IF exp.data[1] % 2 = 1 THEN Mul(result, base) ELSE result,
                 G)
    ELSE result

\* BigInt::pow(exponent)
Pow(x, exponent, G) ==
    IF exponent.negative THEN Err("exponent cannot be negative")
    ELSE IF is_zero(exponent) THEN Ok(BigIntFromI64(1))
    ELSE IF is_zero(x) THEN Ok(BigIntFromI64(0))
    ELSE Ok(PowLoop(x, exponent, BigIntFromI64(1), G))

\* ------------------------------------------------------------------------
\* Decimal text; a char is its code, a C string the chars before its '\0'
\* ------------------------------------------------------------------------

\* '-', '0' and '9'
MinusSign == 45
Zero == 48
Nine == 57

\* const char* str: a null pointer, or a pointer to the chars
NullStr == [null |-> TRUE, chars |-> <<>>]
CStr(chars) == [null |-> FALSE, chars |-> chars]

\* while (*p == '0') ++p; p > Len(chars) is *p == '\0'
RECURSIVE SkipZeros(_, _)
SkipZeros(chars, p) ==
    IF p <= Len(chars) /\ chars[p] = Zero THEN SkipZeros(chars, p + 1) ELSE p

\* the inner loop of from_string over chars[q..cur-1], all of them digits
RECURSIVE GroupVal(_, _, _, _)
GroupVal(chars, q, cur, val) ==
    IF q < cur THEN GroupVal(chars, q + 1, cur, ToDigit(val * 10 + (chars[q] - Zero)))
    ELSE val

\* a group loop that takes every char for a digit
RECURSIVE ParseGroups_nocheck(_, _, _, _, _)
ParseGroups_nocheck(chars, p, cur, data, negative) ==
    IF cur > p
    THEN ParseGroups_nocheck(chars, p,
                             IF cur - DIGIT_BITS > p THEN cur - DIGIT_BITS ELSE p,
                             Append(data, GroupVal(chars,
                                 IF cur - DIGIT_BITS > p THEN cur - DIGIT_BITS ELSE p, cur, 0)),
                             negative)
    ELSE Ok(trim(MkBigInt(data, negative)))

\* while (cur > p): one limb from each group of DIGIT_BITS chars (the code
\* writes the literal 9), the last group first; then trim
RECURSIVE ParseGroups(_, _, _, _, _)
ParseGroups(chars, p, cur, data, negative) ==
    IF cur > p
    THEN LET start == IF cur - DIGIT_BITS > p THEN cur - DIGIT_BITS ELSE p
         IN  IF \E q \in start..(cur - 1) : chars[q] < Zero \/ chars[q] > Nine
             THEN Err("invalid digit")
             ELSE ParseGroups(chars, p, start,
                              Append(data, GroupVal(chars, start, cur, 0)), negative)
    ELSE Ok(trim(MkBigInt(data, negative)))

\* from_string after the leading zeros: p is the first char that is not '0'
FromDigits(chars, p, negative) ==
    IF p > Len(chars) THEN Ok(BigIntFromI64(0))
    ELSE ParseGroups(chars, p, Len(chars) + 1, <<>>, negative)

\* BigInt::from_string(str)
from_string(s) ==
    IF s.null \/ Len(s.chars) = 0 THEN Err("empty string")
    ELSE IF s.chars[1] = MinusSign /\ Len(s.chars) = 1
    THEN Err("missing digits after minus sign")
    ELSE FromDigits(s.chars, SkipZeros(s.chars, IF s.chars[1] = MinusSign THEN 2 ELSE 1),
                    s.chars[1] = MinusSign)

\* std::to_string of an unsigned value
RECURSIVE DecStr(_)
DecStr(n) ==
    IF n < 10 THEN <<Zero + n>> ELSE Append(DecStr(n \div 10), Zero + (n % 10))

\* std::string(n, c)
RECURSIVE Fill(_, _)
Fill(n, c) == IF n <= 0 THEN <<>> ELSE Append(Fill(n - 1, c), c)

\* a limb printed as std::to_string gives it, with no padding
PlainPart(part) == part

\* one limb below the most significant one, padded with '0' to DIGIT_BITS chars
PaddedPart(part) ==
    IF Len(part) < DIGIT_BITS THEN Fill(DIGIT_BITS - Len(part), Zero) \o part ELSE part

\* for (size_t i = data_.size() - 1; i-- > 0; ): the limbs data[i..1]
RECURSIVE ToStringLoop(_, _, _)
ToStringLoop(data, i, s) ==
    IF i > 0 THEN ToStringLoop(data, i - 1, s \o PaddedPart(DecStr(data[i]))) ELSE s

\* BigInt::to_string
to_string(x) ==
    IF is_zero(x) THEN <<Zero>>
    ELSE ToStringLoop(x.data, Len(x.data) - 1,
                      (IF x.negative THEN <<MinusSign>> ELSE <<>>)
                          \o DecStr(x.data[Len(x.data)]))

\* ------------------------------------------------------------------------
\* Narrowing to the native words
\* ------------------------------------------------------------------------

\* std::numeric_limits<uint64_t>::max(), std::numeric_limits<int64_t>::max()
\* and min() of the scaled words
UINT64_MAX == DoubleDigitMod - 1
INT64_MAX == (DoubleDigitMod \div 2) - 1
INT64_MIN == 0 - (DoubleDigitMod \div 2)

\* err<uint64_t>(msg), err<int64_t>(msg)
ErrNum(msg) == [ok |-> FALSE, value |-> 0, error |-> msg]

\* the loop of to_uint64: val = val * BASE + data_[i], from the top limb
RECURSIVE ToU64Loop(_, _, _)
ToU64Loop(data, i, val) ==
    IF i > 0 THEN ToU64Loop(data, i - 1, ToDouble(val * BASE + data[i])) ELSE val

\* BigInt::to_uint64
to_uint64(x) ==
    IF x.negative THEN ErrNum("negative value cannot be converted to uint64_t")
    ELSE IF Gt(x, BigIntFromU64(UINT64_MAX)) THEN ErrNum("value exceeds uint64_t max")
    ELSE Ok(ToU64Loop(x.data, Len(x.data), 0))

\* the negative branch of to_int64 after its range test
NegateAbs(abs_val) ==
    IF abs_val = INT64_MAX + 1 THEN Ok(INT64_MIN) ELSE Ok(0 - abs_val)

\* to_int64 reaches the end of the function without a return statement
FallsOffEnd(x) ==
    /\ ~x.negative
    /\ ~Gt(x, BigIntFromI64(INT64_MAX))
    /\ to_uint64(x).ok

\* what a caller may find where the Result should have been returned: any
\* value, an error, or the converted value by accident
Undefined(x) ==
    {Ok(v) : v \in {0, INT64_MIN, INT64_MAX, to_uint64(x).value}} \cup {ErrNum("")}

\* BigInt::to_int64; undef is the Result of the path without a return
to_int64(x, undef) ==
    IF x.negative
    THEN IF Gt(abs(x), BigIntFromU64(INT64_MAX + 1))
         THEN ErrNum("value exceeds int64_t range")
         ELSE NegateAbs(to_uint64(abs(x)).value)
    ELSE IF Gt(x, BigIntFromI64(INT64_MAX)) THEN ErrNum("value exceeds int64_t max")
    ELSE IF ~to_uint64(x).ok THEN ErrNum(to_uint64(x).error)
    ELSE undef

\* ------------------------------------------------------------------------
\* Decimal: mantissa_ * 10^exponent_
\* ------------------------------------------------------------------------

\* BigInt::sign
sign(x) == IF is_zero(x) THEN 0 ELSE IF x.negative THEN -1 ELSE 1

\* BigInt ten(10)
ten == BigIntFromI64(10)

\* the loop of fast_pow_unsigned: while (!cur_exp.is_zero()); g is what the
\* memory beside the vectors holds during the call
RECURSIVE FastPowLoop(_, _, _, _)
FastPowLoop(cur_base, cur_exp, result, g) ==
    IF ~is_zero(cur_exp)
    THEN FastPowLoop(Mul(cur_base, cur_base),
                     Div(cur_exp, BigIntFromI64(2), g[1], g[2]),
                     IF cur_exp.data[1] % 2 = 1 THEN Mul(result, cur_base) ELSE result,
                     g)
    ELSE result

\* BigInt::fast_pow_unsigned(base, exp)
fast_pow_unsigned(base, exp, g) ==
    IF sign(exp) < 0 THEN Err("negative exponent not allowed in fast_pow_unsigned")
    ELSE IF is_zero(exp) THEN Ok(BigIntFromI64(1))
    ELSE Ok(FastPowLoop(base, exp, BigIntFromI64(1), g))

\* Decimal(const BigInt& mant, int exp): the fields, not normalized
Dec(mant, exp) == [mantissa |-> mant, exponent |-> exp]

\* Decimal(): mantissa_(0), exponent_(0)
DecimalDefault == Dec(BigIntFromI64(0), 0)

\* how a call ends: it came back with the Decimal d, it never comes back,
\* or the process stopped in it
Returned(d) == [kind |-> "value", value |-> d, error |-> ""]
Hangs == [kind |-> "hang", value |-> DecimalDefault, error |-> ""]
Stopped == [kind |-> "crash", value |-> DecimalDefault, error |-> ""]

\* while (mantissa_ % ten == BigInt(0)): when the division by ten gives the
\* mantissa back, every later pass meets the same mantissa and the loop is
\* never left
RECURSIVE NormalizeLoop(_, _, _)
NormalizeLoop(m, e, g) ==
    IF Eq(Mod(m, ten, g[1], g[2]), BigIntFromI64(0))
    THEN IF Div(m, ten, g[1], g[2]) = m THEN Hangs
         ELSE NormalizeLoop(Div(m, ten, g[1], g[2]), e + 1, g)
    ELSE Returned(Dec(m, e))

\* Decimal::normalize
normalize(d, g) ==
    IF is_zero(d.mantissa) THEN Returned(Dec(d.mantissa, 0))
    ELSE NormalizeLoop(d.mantissa, d.exponent, g)

Min(x, y) == IF x < y THEN x ELSE y

\* a_mant = a.mantissa_; if (a_scale > 0) a_mant = a_mant * 10^a_scale
ScaleBy(mant, scale, g) ==
    IF scale > 0 THEN Mul(mant, fast_pow_unsigned(ten, BigIntFromI64(scale), g).value)
    ELSE mant

\* Decimal::align_exponent: the common exponent and the two scaled mantissas
align_exponent(x, y, g) ==
    [exp |-> Min(x.exponent, y.exponent),
     a_mant |-> ScaleBy(x.mantissa, x.exponent - Min(x.exponent, y.exponent), g),
     b_mant |-> ScaleBy(y.mantissa, y.exponent - Min(x.exponent, y.exponent), g)]

\* Decimal::Decimal(const BigInt& mantissa)
DecimalFromBigInt(mantissa, g) == normalize(Dec(mantissa, 0), g)

\* Decimal::integer_part: the power of ten is a product of tens, never zero
integer_part(d, g) ==
    IF d.exponent >= 0
    THEN Mul(d.mantissa, fast_pow_unsigned(ten, BigIntFromI64(d.exponent), g).value)
    ELSE Div(d.mantissa, fast_pow_unsigned(ten, BigIntFromI64(0 - d.exponent), g).value,
             g[1], g[2])

\* Decimal::is_zero
dec_is_zero(d) == is_zero(d.mantissa)

\* Decimal::abs
DecAbs(d) == Dec(abs(d.mantissa), d.exponent)

\* Decimal::operator-() const
DecNeg(d) == Dec(Neg(d.mantissa), d.exponent)

\* Decimal::operator==
DecEq(x, y, g) ==
    IF x.exponent = y.exponent THEN Eq(x.mantissa, y.mantissa)
    ELSE Eq(align_exponent(x, y, g).a_mant, align_exponent(x, y, g).b_mant)

\* Decimal::operator!=
DecNe(x, y, g) == ~DecEq(x, y, g)

\* Decimal::operator<
DecLt(x, y, g) == Lt(align_exponent(x, y, g).a_mant, align_exponent(x, y, g).b_mant)

\* Decimal::operator<=
DecLe(x, y, g) == DecLt(x, y, g) \/ DecEq(x, y, g)

\* Decimal::operator>
DecGt(x, y, g) == DecLt(y, x, g)

\* Decimal::operator>=
DecGe(x, y, g) == ~DecLt(x, y, g)

\* Decimal::operator+
DecAdd(x, y, g) ==
    normalize(Dec(Add(align_exponent(x, y, g).a_mant, align_exponent(x, y, g).b_mant),
                  align_exponent(x, y, g).exp), g)

\* Decimal::operator-
DecSub(x, y, g) ==
    normalize(Dec(Sub(align_exponent(x, y, g).a_mant, align_exponent(x, y, g).b_mant),
                  align_exponent(x, y, g).exp), g)

\* Decimal::operator*
DecMul(x, y, g) == normalize(Dec(Mul(x.mantissa, y.mantissa), x.exponent + y.exponent), g)

\* a call that returns the bool v, and one that never returns
Said(v) == [kind |-> "value", flag |-> v]
NoAnswer == [kind |-> "hang", flag |-> FALSE]

\* a call that returns the BigInt v, and one that never returns
Gave(v) == [kind |-> "value", value |-> v]
NoBigInt == [kind |-> "hang", value |-> BigIntDefault]

\* *this - Decimal(this_int)
FracPart(x, int_dec, g) ==
    IF int_dec.kind # "value" THEN Hangs ELSE DecSub(x, int_dec.value, g)

\* (frac * Decimal(scale)).integer_part(), from the product on
ProductInt(prod, g) ==
    IF prod.kind # "value" THEN NoBigInt ELSE Gave(integer_part(prod.value, g))

\* (frac * Decimal(scale)).integer_part()
ScaledInt(frac, scale_dec, g) ==
    IF frac.kind # "value" \/ scale_dec.kind # "value" THEN NoBigInt
    ELSE ProductInt(DecMul(frac.value, scale_dec.value, g), g)

\* the fraction of x scaled by 10^n and cut to an integer
ScaledFraction(x, n, g) ==
    ScaledInt(FracPart(x, DecimalFromBigInt(integer_part(x, g), g), g),
              DecimalFromBigInt(fast_pow_unsigned(ten, BigIntFromI64(n), g).value, g), g)

\* return this_scaled == other_scaled
SameScaled(this_scaled, other_scaled) ==
    IF this_scaled.kind # "value" \/ other_scaled.kind # "value" THEN NoAnswer
    ELSE Said(Eq(this_scaled.value, other_scaled.value))

\* Decimal::decimal_weekeq(other, n)
decimal_weekeq(x, other, n, g) ==
    IF n < 0 THEN Said(FALSE)
    ELSE IF DecEq(x, other, g) THEN Said(TRUE)
    ELSE IF Ne(integer_part(x, g), integer_part(other, g)) THEN Said(FALSE)
    ELSE SameScaled(ScaledFraction(x, n, g), ScaledFraction(other, n, g))

\* Decimal::div past its two checks: other nonzero and n >= 0
div(x, other, n, g) ==
    normalize(Dec(Div(Mul(align_exponent(x, other, g).a_mant,
                          fast_pow_unsigned(ten, BigIntFromI64(n), g).value),
                      align_exponent(x, other, g).b_mant, g[1], g[2]),
                  0 - n), g)

\* the precision operator/ passes to div
DefaultPrecision == 10

\* Decimal::operator/
DecDiv(x, other, g) == div(x, other, DefaultPrecision, g)

\* '+', '.', 'E' and 'e'
Plus == 43
Dot == 46
UpperE == 69
LowerE == 101

\* Result<Decimal, String>: ok(value) once the call that makes the value has
\* come back, or err(message)
DecOk(out) == IF out.kind = "value" THEN [out EXCEPT !.kind = "ok"] ELSE out
DecErr(msg) == [kind |-> "err", value |-> DecimalDefault, error |-> msg]

\* Result::value(): assert(is_ok()), then the value
Value(res) ==
    IF res.kind = "ok" THEN Returned(res.value)
    ELSE IF res.kind = "err" THEN Stopped
    ELSE res

\* std::isdigit
isdigit(c) == c >= Zero /\ c <= Nine

\* for (char c : part) if (!std::isdigit(c)) ...
AllDigits(chars) == \A i \in 1..Len(chars) : isdigit(chars[i])

\* the first index from i on whose char is in cs, 0 if there is none
RECURSIVE Find(_, _, _)
Find(chars, cs, i) ==
    IF i > Len(chars) THEN 0 ELSE IF chars[i] \in cs THEN i ELSE Find(chars, cs, i + 1)

\* the digits chars[i..] read in base 10
RECURSIVE DigitsVal(_, _, _)
DigitsVal(chars, i, val) ==
    IF i <= Len(chars) THEN DigitsVal(chars, i + 1, val * 10 + (chars[i] - Zero)) ELSE val

\* std::strtol of the checked exponent text: a sign or none, then digits
strtol(chars) ==
    IF chars = <<>> THEN 0
    ELSE IF chars[1] = MinusSign THEN 0 - DigitsVal(chars, 2, 0)
    ELSE IF chars[1] = Plus THEN DigitsVal(chars, 2, 0)
    ELSE DigitsVal(chars, 1, 0)

\* from_string from "construct the mantissa" on: the digits of the mantissa
\* are parsed, negated, and the Decimal is normalized
BuildDecimal(digits, exp_val, negative, g) ==
    DecOk(normalize(Dec(IF negative THEN Neg(from_string(CStr(digits)).value)
                                    ELSE from_string(CStr(digits)).value,
                        exp_val), g))

\* the mantissa with a decimal point: int_part may be empty
WithFraction(int_part, frac_part, exp_str, negative, g) ==
    IF ~AllDigits(int_part) THEN DecErr("invalid integer digit")
    ELSE IF frac_part = <<>> THEN DecErr("decimal point without fractional digits")
    ELSE IF ~AllDigits(frac_part) THEN DecErr("invalid fractional digit")
    ELSE BuildDecimal((IF int_part = <<>> THEN <<Zero>> ELSE int_part) \o frac_part,
                      strtol(exp_str) - Len(frac_part), negative, g)

\* the mantissa text, split at dot_pos when it has a decimal point
SplitAtDot(mant_str, dot_pos, exp_str, negative, g) ==
    IF dot_pos # 0
    THEN IF Find(mant_str, {Dot}, dot_pos + 1) # 0 THEN DecErr("multiple decimal points")
         ELSE WithFraction(SubSeq(mant_str, 1, dot_pos - 1),
                           SubSeq(mant_str, dot_pos + 1, Len(mant_str)),
                           exp_str, negative, g)
    ELSE IF ~AllDigits(mant_str) THEN DecErr("invalid digit")
    ELSE BuildDecimal(mant_str, strtol(exp_str), negative, g)

\* from_string from "parse the mantissa" on
ParseMantissa(mant_str, exp_str, negative, g) ==
    IF mant_str = <<>> THEN DecErr("no digits")
    ELSE SplitAtDot(mant_str, Find(mant_str, {Dot}, 1), exp_str, negative, g)

\* the checks of the text after 'e' or 'E'; exp_i counts the sign
CheckExponent(mant_str, exp_str, exp_i, negative, g) ==
    IF exp_i >= Len(exp_str) THEN DecErr("exponent sign only")
    ELSE IF ~AllDigits(SubSeq(exp_str, exp_i + 1, Len(exp_str)))
    THEN DecErr("invalid exponent digit")
    ELSE ParseMantissa(mant_str, exp_str, negative, g)

\* the text after the sign, split at exp_start when it has an 'e' or 'E'
SplitAtExponent(body, exp_start, negative, g) ==
    IF exp_start # 0
    THEN IF exp_start = Len(body) THEN DecErr("exponent missing")
         ELSE CheckExponent(SubSeq(body, 1, exp_start - 1),
                            SubSeq(body, exp_start + 1, Len(body)),
                            IF body[exp_start + 1] \in {MinusSign, Plus} THEN 1 ELSE 0,
                            negative, g)
    ELSE ParseMantissa(body, <<>>, negative, g)

\* Decimal::from_string(str)
decimal_from_string(s, g) ==
    IF s.null \/ Len(s.chars) = 0 THEN DecErr("empty string")
    ELSE IF s.chars[1] \in {MinusSign, Plus}
    THEN IF Len(s.chars) = 1 THEN DecErr("sign only")
         ELSE SplitAtExponent(Tail(s.chars), Find(Tail(s.chars), {LowerE, UpperE}, 1),
                              s.chars[1] = MinusSign, g)
    ELSE SplitAtExponent(s.chars, Find(s.chars, {LowerE, UpperE}, 1), FALSE, g)

\* the digits of the mantissa with exp zeros after them, or with the decimal
\* point put in
Place(mant_str, exp) ==
    IF exp >= 0 THEN mant_str \o Fill(exp, Zero)
    ELSE IF 0 - exp >= Len(mant_str)
    THEN <<Zero, Dot>> \o Fill((0 - exp) - Len(mant_str), Zero) \o mant_str
    ELSE SubSeq(mant_str, 1, Len(mant_str) + exp) \o <<Dot>>
             \o SubSeq(mant_str, Len(mant_str) + exp + 1, Len(mant_str))

\* res.erase(res.find_last_not_of('0') + 1)
RECURSIVE DropZeros(_)
DropZeros(res) ==
    IF Len(res) > 0 /\ res[Len(res)] = Zero THEN DropZeros(SubSeq(res, 1, Len(res) - 1))
    ELSE res

\* if (res.back() == '.') res.pop_back()
DropDot(res) == IF res[Len(res)] = Dot THEN SubSeq(res, 1, Len(res) - 1) ELSE res

\* the trailing zeros and the decimal point of a text with a decimal point go
StripFraction(res) == IF Find(res, {Dot}, 1) # 0 THEN DropDot(DropZeros(res)) ELSE res

\* if (neg && res != "0") res = "-" + res
Signed(neg, res) == IF neg /\ res # <<Zero>> THEN <<MinusSign>> \o res ELSE res

\* Decimal::to_string
decimal_to_string(d) ==
    IF is_zero(d.mantissa) THEN <<Zero>>
    ELSE Signed(sign(d.mantissa) < 0,
                StripFraction(Place(to_string(abs(d.mantissa)), d.exponent)))

\* Decimal::from_string(result_str).value()
FromText(chars, g) == Value(decimal_from_string(CStr(chars), g))

\* frac_part.append(n + 1 - frac_part.size(), '0')
Pad(frac_part, k) ==
    IF Len(frac_part) < k THEN frac_part \o Fill(k - Len(frac_part), Zero) ELSE frac_part

\* for (int i = n - 1; i >= 0 && carry; --i): i is the index of the char
RECURSIVE CarryLoop(_, _)
CarryLoop(new_frac, i) ==
    IF i >= 1
    THEN IF new_frac[i] = Nine THEN CarryLoop([new_frac EXCEPT ![i] = Zero], i - 1)
         ELSE [frac |-> [new_frac EXCEPT ![i] = @ + 1], carry |-> FALSE]
    ELSE [frac |-> new_frac, carry |-> TRUE]

\* the integer part after the carry: one further from zero by the sign char
CarriedInt(int_part, carry) ==
    IF ~carry THEN from_string(CStr(int_part)).value
    ELSE IF int_part[1] = MinusSign
    THEN Sub(from_string(CStr(int_part)).value, BigIntFromI64(1))
    ELSE Add(from_string(CStr(int_part)).value, BigIntFromI64(1))

\* the branch that rounds up; c is what the carry loop left
RoundUp(int_part, c, n, g) ==
    FromText(to_string(CarriedInt(int_part, c.carry))
                 \o (IF n > 0 /\ c.frac # Fill(n, Zero) THEN <<Dot>> \o c.frac ELSE <<>>),
             g)

\* if (frac_part[n] >= '5') round up, else cut
RoundParts(int_part, frac_part, n, g) ==
    IF frac_part[n + 1] >= Zero + 5
    THEN RoundUp(int_part, CarryLoop(SubSeq(frac_part, 1, n), n), n, g)
    ELSE FromText(int_part \o (IF n > 0 THEN <<Dot>> \o SubSeq(frac_part, 1, n) ELSE <<>>), g)

\* div_round from the text str of temp on
RoundText(temp, str, dot_pos, n, g) ==
    IF dot_pos = 0 THEN Returned(temp)
    ELSE RoundParts(SubSeq(str, 1, dot_pos - 1),
                    Pad(SubSeq(str, dot_pos + 1, Len(str)), n + 1), n, g)

\* div_round once div(other, n + 1) has ended
RoundQuotient(out, n, g) ==
    IF out.kind # "value" THEN out
    ELSE RoundText(out.value, decimal_to_string(out.value),
                   Find(decimal_to_string(out.value), {Dot}, 1), n, g)

\* Decimal::div_round past its two checks: other nonzero and n >= 0
div_round(x, other, n, g) == RoundQuotient(div(x, other, n + 1, g), n, g)

\* std::numeric_limits<int>::max() and min() of the scaled int
INT_MAX == (DigitMod \div 2) - 1
INT_MIN == 0 - (DigitMod \div 2)

\* static_cast<int>(v)
ToInt(v) == ((v - INT_MIN) % DigitMod) + INT_MIN

\* Decimal::pow from the new exponent on; undef is what to_int64 gives
\* where it is undefined
PowExponent(mant_pow, new_exp_big, g, undef) ==
    IF Gt(new_exp_big, BigIntFromI64(INT_MAX)) \/ Lt(new_exp_big, BigIntFromI64(INT_MIN))
    THEN DecErr("exponent overflow in Decimal::pow")
    ELSE IF ~to_int64(new_exp_big, undef).ok THEN Stopped
    ELSE DecOk(normalize(Dec(mant_pow, ToInt(to_int64(new_exp_big, undef).value)), g))

\* Decimal::pow from the power of the mantissa on
PowMantissa(x, exponent, mant_pow_res, g, undef) ==
    IF ~mant_pow_res.ok THEN DecErr(mant_pow_res.error)
    ELSE PowExponent(IF sign(x.mantissa) < 0
                        /\ Eq(Mod(exponent, BigIntFromI64(2), g[1], g[2]), BigIntFromI64(1))
                     THEN Neg(mant_pow_res.value) ELSE mant_pow_res.value,
                     Mul(BigIntFromI64(x.exponent), exponent), g, undef)

\* a pow that takes a negative exponent for the exponent 0
DecPow_unsigned(x, exponent, g, undef) ==
    IF sign(exponent) <= 0 THEN DecOk(DecimalFromBigInt(BigIntFromI64(1), g))
    ELSE PowMantissa(x, exponent,
                     Pow(abs(x.mantissa), exponent, [k \in 2..Len(exponent.data) |-> g]),
                     g, undef)

\* Decimal::pow(exponent)
DecPow(x, exponent, g, undef) ==
    IF sign(exponent) < 0 THEN DecErr("negative exponent not supported")
    ELSE IF is_zero(exponent) THEN DecOk(DecimalFromBigInt(BigIntFromI64(1), g))
    ELSE PowMantissa(x, exponent,
                     Pow(abs(x.mantissa), exponent, [k \in 2..Len(exponent.data) |-> g]),
                     g, undef)

\* ------------------------------------------------------------------------
\* Dict<int>: open addressing with linear probing over entries_
\* ------------------------------------------------------------------------

\* String(): the key of an Entry() and of a slot whose key was moved away
NoKey == 0

\* std::nullopt of std::optional<SizeType>
NoIndex == 0 - 1

\* Dict(): entries_(16), scaled to 4 slots
InitialCapacity == 4

\* what the map holds for a key that get reports as "key not found"
Absent == 0 - 1

\* the values stored
DictValues == {42, 100}

\* the keys "a", "b", "c", "d" and what std::hash gives for them: "a" and
\* "b" collide in tables of 4 and of 8 slots, "c" and "d" collide in the
\* last slot of a table of 4 slots
DictKeys == {1, 2, 3, 4}
HashCodes == <<1, 9, 3, 7>>

\* detail::hash_string
hash_string(k) == HashCodes[k]

\* detail::next_probe
next_probe(index, i, capacity) == (index + i) % capacity

\* detail::Entry: Entry() is an Empty slot
Entry(k, v, st) == [key |-> k, value |-> v, state |-> st]

\* std::vector<Entry>(n)
RECURSIVE EmptyTable(_)
EmptyTable(n) == IF n = 0 THEN <<>> ELSE Append(EmptyTable(n - 1), Entry(NoKey, 0, "Empty"))

\* Dict()
DictNew == [entries_ |-> EmptyTable(InitialCapacity), size_ |-> 0, deleted_count_ |-> 0]

\* need_rehash: load_factor() >= LOAD_FACTOR, that is
\* (size_ + deleted_count_) / entries_.size() >= 0.75
need_rehash(d) == 4 * (d.size_ + d.deleted_count_) >= 3 * Len(d.entries_)

\* the loop of find_index: index is the slot probed, i the probes made
RECURSIVE FindIndexLoop(_, _, _, _)
FindIndexLoop(entries, k, index, i) ==
    IF i < Len(entries)
    THEN IF entries[index + 1].state = "Empty" THEN NoIndex
         ELSE IF entries[index + 1].state = "Occupied" /\ entries[index + 1].key = k THEN index
         ELSE FindIndexLoop(entries, k,
                            next_probe(hash_string(k) % Len(entries), i + 1, Len(entries)),
                            i + 1)
    ELSE NoIndex

\* Dict::find_index
find_index(d, k) ==
    IF Len(d.entries_) = 0 THEN NoIndex
    ELSE FindIndexLoop(d.entries_, k, hash_string(k) % Len(d.entries_), 0)

\* the inner loop of rehash: the first Empty slot of new_entries for entry
RECURSIVE RehashProbe(_, _, _, _)
RehashProbe(new_entries, entry, index, i) ==
    IF new_entries[index + 1].state = "Empty"
    THEN [new_entries EXCEPT ![index + 1] = Entry(entry.key, entry.value, "Occupied")]
    ELSE RehashProbe(new_entries, entry,
                     next_probe(hash_string(entry.key) % Len(new_entries), i + 1,
                                Len(new_entries)),
                     i + 1)

\* for (auto& entry : entries_): the Occupied entries go to new_entries
RECURSIVE RehashLoop(_, _, _)
RehashLoop(entries, j, new_entries) ==
    IF j > Len(entries) THEN new_entries
    ELSE RehashLoop(entries, j + 1,
                    IF entries[j].state = "Occupied"
                    THEN RehashProbe(new_entries, entries[j],
                                     hash_string(entries[j].key) % Len(new_entries), 0)
                    ELSE new_entries)

\* Dict::rehash
rehash(d) ==
    [entries_ |-> RehashLoop(d.entries_, 1, EmptyTable(Len(d.entries_) * 2)),
     size_ |-> d.size_,
     deleted_count_ |-> 0]

\* what find_or_insert_detail returns, with the Dict it leaves: the slot,
\* whether it was inserted, and whether check(false, ...) was reached
Found(d, index) == [dict |-> d, index |-> index, inserted |-> FALSE, full |-> FALSE]
TableFull(d) == [dict |-> d, index |-> NoIndex, inserted |-> FALSE, full |-> TRUE]

\* an Empty slot was met: the key goes to the first Deleted slot seen, or to
\* the Empty one, with a value-initialized value
InsertAt(d, k, slot, reused) ==
    [dict |-> [entries_ |-> [d.entries_ EXCEPT ![slot + 1] = Entry(k, 0, "Occupied")],
               size_ |-> d.size_ + 1,
               deleted_count_ |-> IF reused THEN d.deleted_count_ - 1 ELSE d.deleted_count_],
     index |-> slot, inserted |-> TRUE, full |-> FALSE]

\* the loop of find_or_insert_detail
RECURSIVE FindOrInsertLoop(_, _, _, _, _)
FindOrInsertLoop(d, k, index, i, first_deleted) ==
    IF i < Len(d.entries_)
    THEN IF d.entries_[index + 1].state = "Empty"
         THEN InsertAt(d, k, IF first_deleted # NoIndex THEN first_deleted ELSE index,
                       first_deleted # NoIndex)
         ELSE IF d.entries_[index + 1].state = "Occupied" /\ d.entries_[index + 1].key = k
         THEN Found(d, index)
         ELSE FindOrInsertLoop(d, k,
                               next_probe(hash_string(k) % Len(d.entries_), i + 1,
                                          Len(d.entries_)),
                               i + 1,
                               IF d.entries_[index + 1].state = "Deleted"
                                  /\ first_deleted = NoIndex
                               THEN index ELSE first_deleted)
    ELSE TableFull(d)

\* find_or_insert_detail after its rehash
FindOrInsertIn(d, k) == FindOrInsertLoop(d, k, hash_string(k) % Len(d.entries_), 0, NoIndex)

\* Dict::find_or_insert_detail
find_or_insert_detail(d, k) == FindOrInsertIn(IF need_rehash(d) THEN rehash(d) ELSE d, k)

\* Dict::find_or_insert: the entry of find_or_insert_detail
find_or_insert(d, k) == find_or_insert_detail(d, k)

\* entry->value = value, through the pointer found holds
SetValue(found, v) ==
    IF found.full THEN found
    ELSE [found EXCEPT !.dict.entries_[found.index + 1].value = v]

\* what an operation returns, with the Dict it leaves: kind is "ok", "err",
\* "value" or "abort"
DictOut(d, kind, k, v) == [dict |-> d, kind |-> kind, key |-> k, value |-> v]

\* Dict::get(key)
get(d, k) ==
    IF find_index(d, k) # NoIndex /\ d.entries_[find_index(d, k) + 1].state = "Occupied"
    THEN DictOut(d, "ok", k, d.entries_[find_index(d, k) + 1].value)
    ELSE DictOut(d, "err", k, 0)

\* an operation that ends with the entry found holds
Stored(found, kind, k) ==
    IF found.full THEN DictOut(found.dict, "abort", k, 0)
    ELSE DictOut(found.dict, kind, k, found.dict.entries_[found.index + 1].value)

\* Dict::insert(key, value)
insert(d, k, v) == Stored(SetValue(find_or_insert(d, k), v), "value", k)

\* dict[key] = value: operator[] gives the value of the entry of
\* find_or_insert, and the assignment goes through that reference
subscript_assign(d, k, v) == Stored(SetValue(find_or_insert(d, k), v), "value", k)

\* setdefault from "auto result = find_or_insert_detail(key)" on
SetDefaultResult(result, k, default_value) ==
    Stored(IF result.inserted THEN SetValue(result, default_value) ELSE result, "value", k)

\* Dict::setdefault: "auto* entry = find_or_insert(key)" runs first, then
\* find_or_insert_detail(key); find_for_setdefault is declared nowhere
setdefault(d, k, default_value) ==
    IF find_or_insert(d, k).full THEN DictOut(find_or_insert(d, k).dict, "abort", k, 0)
    ELSE SetDefaultResult(find_or_insert_detail(find_or_insert(d, k).dict, k), k, default_value)

\* a pop that empties the slot idx and leaves no tombstone
PopAt_emptied(d, idx, k) ==
    DictOut([entries_ |-> [d.entries_ EXCEPT ![idx + 1].state = "Empty"],
             size_ |-> d.size_ - 1,
             deleted_count_ |-> d.deleted_count_],
            "ok", k, d.entries_[idx + 1].value)

\* pop past its test: the slot idx becomes Deleted
PopAt(d, idx, k) ==
    DictOut([entries_ |-> [d.entries_ EXCEPT ![idx + 1].state = "Deleted"],
             size_ |-> d.size_ - 1,
             deleted_count_ |-> d.deleted_count_ + 1],
            "ok", k, d.entries_[idx + 1].value)

\* Dict::pop(key)
pop(d, k) ==
    IF find_index(d, k) = NoIndex \/ d.entries_[find_index(d, k) + 1].state # "Occupied"
    THEN DictOut(d, "err", k, 0)
    ELSE PopAt(d, find_index(d, k), k)

\* for (auto it = entries_.rbegin(); ...): the last Occupied slot, from j down
RECURSIVE LastOccupied(_, _)
LastOccupied(entries, j) ==
    IF j = 0 THEN NoIndex
    ELSE IF entries[j].state = "Occupied" THEN j - 1
    ELSE LastOccupied(entries, j - 1)

\* popitem at the slot idx; left is the key the moved-from String holds
PopItemAt(d, idx, left) ==
    DictOut([entries_ |-> [d.entries_ EXCEPT ![idx + 1].state = "Deleted",
                                             ![idx + 1].key = left],
             size_ |-> d.size_ - 1,
             deleted_count_ |-> d.deleted_count_ + 1],
            "ok", d.entries_[idx + 1].key, d.entries_[idx + 1].value)

\* Dict::popitem
popitem(d, left) ==
    IF d.size_ = 0 THEN DictOut(d, "err", NoKey, 0)
    ELSE IF LastOccupied(d.entries_, Len(d.entries_)) = NoIndex THEN DictOut(d, "err", NoKey, 0)
    ELSE PopItemAt(d, LastOccupied(d.entries_, Len(d.entries_)), left)

\* Dict::clear
clear(d) ==
    DictOut([entries_ |-> EmptyTable(Len(d.entries_)), size_ |-> 0, deleted_count_ |-> 0],
            "value", NoKey, 0)

\* ------------------------------------------------------------------------
\* The integers the limb vectors denote
\* ------------------------------------------------------------------------

\* pairwise coprime moduli whose product (about 10^24) exceeds twice every
\* magnitude of the model: two integers that agree modulo each of them and
\* are smaller than half the product in absolute value are equal (the
\* integers themselves do not fit TLC's 32 bits)
Moduli == {9973, 9967, 9949, 9941, 9931, 9929}

\* sum of d[k] * BASE^(k-i) for k >= i, modulo p (Horner's rule)
RECURSIVE MagMod(_, _, _)
MagMod(d, i, p) == IF i > Len(d) THEN 0 ELSE (d[i] + BASE * MagMod(d, i + 1, p)) % p

\* the integer x denotes, modulo p
IntMod(x, p) == IF x.negative THEN (p - MagMod(x.data, 1, p)) % p ELSE MagMod(x.data, 1, p)

\* x denotes zero
DenotesZero(x) == \A i \in 1..Len(x.data) : x.data[i] = 0

\* x and y denote the same integer
SameInt(x, y) == \A p \in Moduli : IntMod(x, p) = IntMod(y, p)

\* x denotes a smaller integer than y: the sign, then the length of the
\* magnitude without its zero limbs, then the most significant difference
MagLess(dx, dy) ==
    LET tx == PopZeros(dx)
        ty == PopZeros(dy)
    IN  IF Len(tx) # Len(ty) THEN Len(tx) < Len(ty)
        ELSE \E i \in 1..Len(tx) :
                /\ tx[i] < ty[i]
                /\ \A k \in (i + 1)..Len(tx) : tx[k] = ty[k]
IntLess(x, y) ==
    LET nx == x.negative /\ ~DenotesZero(x)
        ny == y.negative /\ ~DenotesZero(y)
    IN  IF nx # ny THEN nx
        ELSE IF nx THEN MagLess(y.data, x.data) ELSE MagLess(x.data, y.data)

\* ------------------------------------------------------------------------
\* State
\* ------------------------------------------------------------------------

VARIABLES
    a,        \* the left operand, the object a compound assignment changes
    b,        \* the right operand
    r,        \* the BigInt the last operation returned
    r2,       \* the second BigInt of a pair (the remainder of unsigned_div_mod)
    cmp,      \* what the six comparison operators returned for lhs and rhs
    lhs,      \* the left operand of the last comparison
    rhs,      \* the right operand of the last comparison
    op,       \* the last operation applied
    status,   \* "none", "value", "ok", "err", "abort" (check failed)
    assigned, \* a compound assignment has been applied to a
    str,      \* the C string given to from_string
    text,     \* the chars to_string returned
    num,      \* the native integer to_uint64 or to_int64 returned
    pc,       \* "ready": operands built; "input": a string to parse is given;
              \* "parsed": from_string has returned; "done": the operation
              \* has returned; "decimal": Decimal operands built;
              \* "dec_input": a string for Decimal::from_string is given;
              \* "formatted": to_string of the parsed Decimal has returned;
              \* "dict": a Dict is in use; "defaulted": setdefault has
              \* returned
    da,       \* the left Decimal operand
    db,       \* the right Decimal operand
    dr,       \* the Decimal the last operation returned
    prec,     \* the int n given to div and div_round
    dlhs,     \* the left operand of the last Decimal comparison
    drhs,     \* the right operand of the last Decimal comparison
    weq,      \* what decimal_weekeq returned
    dict,     \* the Dict<int>: entries_, size_ and deleted_count_
    stored,   \* for every key, the value last stored and not removed since,
              \* or Absent
    key,      \* the key given to the last Dict operation
    val       \* the value given to the last Dict operation

\* the Decimal part of the state
dvars == <<da, db, dr, prec, dlhs, drhs, weq>>

\* the Dict part of the state
kvars == <<dict, stored, key, val>>

vars == <<a, b, r, r2, cmp, lhs, rhs, op, status, assigned, str, text, num, pc,
          da, db, dr, prec, dlhs, drhs, weq, dict, stored, key, val>>

\* the limb vectors of n limbs built from the samples
RECURSIVE SeqsOfLen(_)
SeqsOfLen(n) ==
    IF n = 0 THEN {<<>>} ELSE {Append(d, x) : d \in SeqsOfLen(n - 1), x \in LimbSamples}

\* magnitudes of exactly n limbs built from the samples, no leading zero limb
MagsOfLen(n) ==
    IF n = 1 THEN {<<x>> : x \in LimbSamples \cup SmallSamples}
    ELSE {Append(d, x) : d \in SeqsOfLen(n - 1), x \in LimbSamples \ {0}}

\* the operands of at most n limbs, of either sign
Operands(n) ==
    LET mags == UNION {MagsOfLen(k) : k \in 1..n}
    IN  {trim(MkBigInt(d, s)) : d \in mags, s \in BOOLEAN}

\* the values at the ends of the native words
Boundaries == {INT64_MAX, INT64_MAX + 1, INT64_MAX + 2, UINT64_MAX, UINT64_MAX + 1}

\* the BigInts at the ends of the native words, of either sign
ConvOperands == {trim(MkBigInt(LimbsOf(v), s)) : v \in Boundaries, s \in BOOLEAN}

\* the chars of the strings: '-', '0', '7', '9', and '+' and 'a', which are
\* below '0' and above '9'
Alphabet == {MinusSign, Zero, Zero + 7, Nine, MinusSign - 2, Nine + 40}

\* the char sequences of at most n chars
RECURSIVE CharsUpTo(_)
CharsUpTo(n) ==
    IF n = 0 THEN {<<>>}
    ELSE CharsUpTo(n - 1)
             \cup {Append(cs, c) : cs \in {t \in CharsUpTo(n - 1) : Len(t) = n - 1}, c \in Alphabet}

\* the arguments of from_string
CStrings == {NullStr} \cup {CStr(cs) : cs \in CharsUpTo(MaxStrLen)}

\* what the memory beside the vectors may hold during one Decimal call
Memory == Garbage \X Garbage

\* the most fractional digits asked of div and div_round
MaxPrecision == 2

\* the int n given to div and div_round: a negative one, and 0..MaxPrecision
Precisions == {0 - 1} \cup (0..MaxPrecision)

\* the texts the Decimal operands are parsed from: "0", "3", "7", "10",
\* "20", "0.5", "-0.5", "1.23", "1.230", "1.24", "-1.23", "2e1", "-3"
DecimalLiterals ==
    {<<Zero>>, <<Zero + 3>>, <<Zero + 7>>, <<Zero + 1, Zero>>, <<Zero + 2, Zero>>,
     <<Zero, Dot, Zero + 5>>, <<MinusSign, Zero, Dot, Zero + 5>>,
     <<Zero + 1, Dot, Zero + 2, Zero + 3>>, <<Zero + 1, Dot, Zero + 2, Zero + 3, Zero>>,
     <<Zero + 1, Dot, Zero + 2, Zero + 4>>, <<MinusSign, Zero + 1, Dot, Zero + 2, Zero + 3>>,
     <<Zero + 2, LowerE, Zero + 1>>, <<MinusSign, Zero + 3>>}

\* the Decimals from_string gives for the literals, where it comes back
DecimalOperands ==
    {o.value : o \in {p \in {decimal_from_string(CStr(t), g) : t \in DecimalLiterals, g \in Memory} :
                          p.kind = "ok"}}

\* the exponents given to Decimal::pow; the last one takes the exponents 1
\* and -2 of the operands out of the range of int
PowExponents == {BigIntFromI64(e) : e \in {0 - 3, 0 - 1, 0, 1, 2, 3, (DigitMod \div 2)}}

\* the chars of the texts given to Decimal::from_string: '-', '+', '.', 'e',
\* '0', '1', '5' and 'a'
DecAlphabet == {MinusSign, Plus, Dot, LowerE, Zero, Zero + 1, Zero + 5, Nine + 40}

\* the longest text given to Decimal::from_string
MaxDecStrLen == 4

\* the char sequences of at most n chars of DecAlphabet
RECURSIVE DecCharsUpTo(_)
DecCharsUpTo(n) ==
    IF n = 0 THEN {<<>>}
    ELSE DecCharsUpTo(n - 1)
             \cup {Append(cs, c) : cs \in {t \in DecCharsUpTo(n - 1) : Len(t) = n - 1},
                                   c \in DecAlphabet}

\* the arguments of Decimal::from_string
DecStrings == {NullStr} \cup {CStr(cs) : cs \in DecCharsUpTo(MaxDecStrLen)}

NoCmp == [eq |-> FALSE, ne |-> FALSE, lt |-> FALSE, le |-> FALSE, gt |-> FALSE, ge |-> FALSE]

\* two operands for the arithmetic, a value to narrow, a string to parse,
\* two Decimal operands, or a string for Decimal::from_string
Init ==
    /\ \/ /\ a \in Operands(MaxLimbs)
          /\ b \in Operands(MaxLimbs)
          /\ str = CStr(<<>>)
          /\ da = DecimalDefault
          /\ db = DecimalDefault
          /\ pc = "ready"
       \/ /\ a \in ConvOperands
          /\ b = BigIntDefault
          /\ str = CStr(<<>>)
          /\ da = DecimalDefault
          /\ db = DecimalDefault
          /\ pc = "ready"
       \/ /\ a = BigIntDefault
          /\ b = BigIntDefault
          /\ str \in CStrings
          /\ da = DecimalDefault
          /\ db = DecimalDefault
          /\ pc = "input"
       \/ /\ a = BigIntDefault
          /\ b = BigIntDefault
          /\ str = CStr(<<>>)
          /\ da \in DecimalOperands
          /\ db \in DecimalOperands
          /\ pc = "decimal"
       \/ /\ a = BigIntDefault
          /\ b = BigIntDefault
          /\ str \in DecStrings
          /\ da = DecimalDefault
          /\ db = DecimalDefault
          /\ pc = "dec_input"
    /\ dr = DecimalDefault
    /\ prec = 0
    /\ dlhs = DecimalDefault
    /\ drhs = DecimalDefault
    /\ weq = FALSE
    /\ dict = DictNew
    /\ stored = [k \in DictKeys |-> Absent]
    /\ key = NoKey
    /\ val = 0
    /\ text = <<>>
    /\ num = 0
    /\ r = BigIntDefault
    /\ r2 = BigIntDefault
    /\ cmp = NoCmp
    /\ lhs = BigIntDefault
    /\ rhs = BigIntDefault
    /\ op = "init"
    /\ status = "none"
    /\ assigned = FALSE

\* an operation that returns the BigInt v and leaves both operands alone
Returns(name, v) ==
    /\ pc = "ready"
    /\ r' = v
    /\ op' = name
    /\ status' = "value"
    /\ pc' = "done"
    /\ UNCHANGED <<a, b, r2, cmp, lhs, rhs, assigned, str, text, num>>
    /\ UNCHANGED dvars
    /\ UNCHANGED kvars

\* check(false, ...): the diagnostic and std::abort()
Aborts(name) ==
    /\ pc = "ready"
    /\ op' = name
    /\ status' = "abort"
    /\ pc' = "done"
    /\ UNCHANGED <<a, b, r, r2, cmp, lhs, rhs, assigned, str, text, num>>
    /\ UNCHANGED dvars
    /\ UNCHANGED kvars

\* a compound assignment that writes through other as well
Assigns_both(name, v) ==
    /\ pc = "ready"
    /\ ~assigned
    /\ a' = v
    /\ b' = v
    /\ op' = name
    /\ assigned' = TRUE
    /\ UNCHANGED <<r, r2, cmp, lhs, rhs, status, str, text, num, pc>>
    /\ UNCHANGED dvars
    /\ UNCHANGED kvars

\* a compound assignment *this = *this op other
Assigns(name, v) ==
    /\ pc = "ready"
    /\ ~assigned
    /\ a' = v
    /\ op' = name
    /\ assigned' = TRUE
    /\ UNCHANGED <<b, r, r2, cmp, lhs, rhs, status, str, text, num, pc>>
    /\ UNCHANGED dvars
    /\ UNCHANGED kvars

OpNeg == Returns("neg", Neg(a))
OpAbs == Returns("abs", abs(a))
OpAdd == Returns("add", Add(a, b))
OpSub == Returns("sub", Sub(a, b))
OpMul == Returns("mul", Mul(a, b))

OpDiv ==
    \/ /\ ~is_zero(b)
       /\ \E gv \in Outside(a, b), gu \in Outside(a, b) : Returns("div", Div(a, b, gv, gu))
    \/ /\ is_zero(b)
       /\ Aborts("div")

OpMod ==
    \/ /\ ~is_zero(b)
       /\ \E gv \in Outside(a, b), gu \in Outside(a, b) : Returns("mod", Mod(a, b, gv, gu))
    \/ /\ is_zero(b)
       /\ Aborts("mod")

\* an operation that returns the pair qr of BigInts
ReturnsPair(name, qr) ==
    /\ pc = "ready"
    /\ r' = qr.q
    /\ r2' = qr.r
    /\ op' = name
    /\ status' = "value"
    /\ pc' = "done"
    /\ UNCHANGED <<a, b, cmp, lhs, rhs, assigned, str, text, num>>
    /\ UNCHANGED dvars
    /\ UNCHANGED kvars

\* an operation that returns the Result res
ReturnsResult(name, res) ==
    /\ pc = "ready"
    /\ r' = res.value
    /\ status' = IF res.ok THEN "ok" ELSE "err"
    /\ op' = name
    /\ pc' = "done"
    /\ UNCHANGED <<a, b, r2, cmp, lhs, rhs, assigned, str, text, num>>
    /\ UNCHANGED dvars
    /\ UNCHANGED kvars

\* unsigned_div_mod(|a|, |b|) as operator/ and operator% call it
OpDivModKernel ==
    /\ ~is_zero(b)
    /\ \E gv \in Outside(a, b), gu \in Outside(a, b) :
          ReturnsPair("divmod", unsigned_div_mod(abs(a), abs(b), gv, gu))

\* a.pow(b) on the constructed operands; every division of a multi-limb exp
\* by 2 reads outside v and u, each one its own memory
OpPow ==
    /\ ~assigned
    /\ Len(b.data) <= MaxExpLimbs
    /\ \E G \in [2..Len(b.data) -> Garbage \X Garbage] : ReturnsResult("pow", Pow(a, b, G))

\* (a + b) - b
OpAddSub == Returns("addsub", Sub(Add(a, b), b))

\* (a / b) * b + (a % b); each division reads its own memory
OpDivMulMod ==
    \/ /\ ~is_zero(b)
       /\ \E gv \in Outside(a, b), gu \in Outside(a, b), hv \in Outside(a, b), hu \in Outside(a, b) :
              Returns("divmulmod", Add(Mul(Div(a, b, gv, gu), b), Mod(a, b, hv, hu)))
    \/ /\ is_zero(b)
       /\ Aborts("divmulmod")

\* the six comparisons of x with y
Compares(x, y) ==
    /\ pc = "ready"
    /\ lhs' = x
    /\ rhs' = y
    /\ cmp' = [eq |-> Eq(x, y), ne |-> Ne(x, y), lt |-> Lt(x, y),
               le |-> Le(x, y), gt |-> Gt(x, y), ge |-> Ge(x, y)]
    /\ op' = "compare"
    /\ status' = "value"
    /\ pc' = "done"
    /\ UNCHANGED <<a, b, r, r2, assigned, str, text, num>>
    /\ UNCHANGED dvars
    /\ UNCHANGED kvars

\* a constructed value or a sum, compared with a constructed value
OpCompare ==
    \E x \in {a, Add(a, b)}, y \in {b, BigIntDefault} : Compares(x, y)

AddAssign == Assigns("add_assign", Add(a, b))
SubAssign == Assigns("sub_assign", Sub(a, b))
MulAssign == Assigns("mul_assign", Mul(a, b))

DivAssign ==
    \/ /\ ~is_zero(b)
       /\ \E gv \in Outside(a, b), gu \in Outside(a, b) :
              Assigns("div_assign", Div(a, b, gv, gu))
    \/ /\ is_zero(b)
       /\ Aborts("div_assign")

ModAssign ==
    \/ /\ ~is_zero(b)
       /\ \E gv \in Outside(a, b), gu \in Outside(a, b) :
              Assigns("mod_assign", Mod(a, b, gv, gu))
    \/ /\ is_zero(b)
       /\ Aborts("mod_assign")

\* BigInt::from_string(str)
OpFromString ==
    /\ pc = "input"
    /\ r' = from_string(str).value
    /\ status' = IF from_string(str).ok THEN "ok" ELSE "err"
    /\ op' = "from_string"
    /\ pc' = "parsed"
    /\ UNCHANGED <<a, b, r2, cmp, lhs, rhs, assigned, str, text, num>>
    /\ UNCHANGED dvars
    /\ UNCHANGED kvars

\* to_string of the BigInt from_string gave
OpToString ==
    /\ pc = "parsed"
    /\ status = "ok"
    /\ text' = to_string(r)
    /\ op' = "to_string"
    /\ pc' = "done"
    /\ UNCHANGED <<a, b, r, r2, cmp, lhs, rhs, status, assigned, str, num>>
    /\ UNCHANGED dvars
    /\ UNCHANGED kvars

\* an operation that returns the Result res of a native integer
ReturnsNum(name, res) ==
    /\ pc = "ready"
    /\ num' = res.value
    /\ status' = IF res.ok THEN "ok" ELSE "err"
    /\ op' = name
    /\ pc' = "done"
    /\ UNCHANGED <<a, b, r, r2, cmp, lhs, rhs, assigned, str, text>>
    /\ UNCHANGED dvars
    /\ UNCHANGED kvars

\* the process stops on a fault
Crashes(name) ==
    /\ pc = "ready"
    /\ op' = name
    /\ status' = "crash"
    /\ pc' = "done"
    /\ UNCHANGED <<a, b, r, r2, cmp, lhs, rhs, assigned, str, text, num>>
    /\ UNCHANGED dvars
    /\ UNCHANGED kvars

OpToUint64 == ReturnsNum("to_uint64", to_uint64(a))

\* a.to_int64(); flowing off the end of the function is undefined: the
\* caller gets some Result, or the process stops
OpToInt64 ==
    \/ \E undef \in (IF FallsOffEnd(a) THEN Undefined(a) ELSE {ErrNum("")}) :
           ReturnsNum("to_int64", to_int64(a, undef))
    \/ /\ FallsOffEnd(a)
       /\ Crashes("to_int64")

\* a Decimal operation on da and db, given the int n, ends as out says
DecEnds(name, out, n) ==
    /\ pc = "decimal"
    /\ dr' = out.value
    /\ prec' = n
    /\ op' = name
    /\ status' = out.kind
    /\ pc' = "done"
    /\ UNCHANGED <<a, b, r, r2, cmp, lhs, rhs, assigned, str, text, num, da, db, dlhs, drhs, weq>>
    /\ UNCHANGED kvars

\* a check that lets the operation go on to return a Decimal
DecAborts_returns(name, n) ==
    /\ pc = "decimal"
    /\ prec' = n
    /\ op' = name
    /\ status' = "value"
    /\ pc' = "done"
    /\ UNCHANGED <<a, b, r, r2, cmp, lhs, rhs, assigned, str, text, num, da, db, dr, dlhs, drhs, weq>>
    /\ UNCHANGED kvars

\* check(false, ...) in a Decimal operation given the int n
DecAborts(name, n) ==
    /\ pc = "decimal"
    /\ prec' = n
    /\ op' = name
    /\ status' = "abort"
    /\ pc' = "done"
    /\ UNCHANGED <<a, b, r, r2, cmp, lhs, rhs, assigned, str, text, num, da, db, dr, dlhs, drhs, weq>>
    /\ UNCHANGED kvars

\* Decimal(a) of a constructed BigInt
OpDecimal ==
    /\ pc = "ready"
    /\ ~assigned
    /\ \E g \in Memory :
          /\ dr' = DecimalFromBigInt(a, g).value
          /\ status' = DecimalFromBigInt(a, g).kind
    /\ op' = "decimal"
    /\ pc' = "done"
    /\ UNCHANGED <<a, b, r, r2, cmp, lhs, rhs, assigned, str, text, num, da, db, prec, dlhs, drhs, weq>>
    /\ UNCHANGED kvars

\* Decimal::from_string(str)
OpDecFromString ==
    /\ pc = "dec_input"
    /\ \E g \in Memory :
          /\ dr' = decimal_from_string(str, g).value
          /\ status' = decimal_from_string(str, g).kind
    /\ op' = "dec_from_string"
    /\ pc' = "done"
    /\ UNCHANGED <<a, b, r, r2, cmp, lhs, rhs, assigned, str, text, num, da, db, prec, dlhs, drhs, weq>>
    /\ UNCHANGED kvars

OpDecNeg == DecEnds("dec_neg", Returned(DecNeg(da)), prec)
OpDecAbs == DecEnds("dec_abs", Returned(DecAbs(da)), prec)
OpDecAdd == \E g \in Memory : DecEnds("dec_add", DecAdd(da, db, g), prec)
OpDecSub == \E g \in Memory : DecEnds("dec_sub", DecSub(da, db, g), prec)
OpDecMul == \E g \in Memory : DecEnds("dec_mul", DecMul(da, db, g), prec)

\* da.div(db, n)
OpDecDiv ==
    \E n \in Precisions :
        \/ /\ dec_is_zero(db)
           /\ DecAborts("dec_div", n)
        \/ /\ ~dec_is_zero(db)
           /\ n < 0
           /\ DecAborts("dec_div", n)
        \/ /\ ~dec_is_zero(db)
           /\ n >= 0
           /\ \E g \in Memory : DecEnds("dec_div", div(da, db, n, g), n)

\* da / db
OpDecDivOp ==
    \/ /\ dec_is_zero(db)
       /\ DecAborts("dec_divop", DefaultPrecision)
    \/ /\ ~dec_is_zero(db)
       /\ \E g \in Memory : DecEnds("dec_divop", DecDiv(da, db, g), DefaultPrecision)

\* da.div_round(db, n)
OpDecDivRound ==
    \E n \in Precisions :
        \/ /\ dec_is_zero(db)
           /\ DecAborts("dec_div_round", n)
        \/ /\ ~dec_is_zero(db)
           /\ n < 0
           /\ DecAborts("dec_div_round", n)
        \/ /\ ~dec_is_zero(db)
           /\ n >= 0
           /\ \E g \in Memory : DecEnds("dec_div_round", div_round(da, db, n, g), n)

\* da.pow(e): the exponent e is kept in b; where to_int64 is undefined the
\* caller gets some Result
OpDecPow ==
    /\ pc = "decimal"
    /\ \E e \in PowExponents, g \in Memory :
          \E undef \in Undefined(Mul(BigIntFromI64(da.exponent), e)) :
              /\ b' = e
              /\ dr' = DecPow(da, e, g, undef).value
              /\ status' = DecPow(da, e, g, undef).kind
    /\ op' = "dec_pow"
    /\ pc' = "done"
    /\ UNCHANGED <<a, r, r2, cmp, lhs, rhs, assigned, str, text, num, da, db, prec, dlhs, drhs, weq>>
    /\ UNCHANGED kvars

\* the six comparisons of the Decimals x and y
DecCompares(x, y, g) ==
    /\ pc = "decimal"
    /\ dlhs' = x
    /\ drhs' = y
    /\ cmp' = [eq |-> DecEq(x, y, g), ne |-> DecNe(x, y, g), lt |-> DecLt(x, y, g),
               le |-> DecLe(x, y, g), gt |-> DecGt(x, y, g), ge |-> DecGe(x, y, g)]
    /\ op' = "dec_compare"
    /\ status' = "value"
    /\ pc' = "done"
    /\ UNCHANGED <<a, b, r, r2, lhs, rhs, assigned, str, text, num, da, db, dr, prec, weq>>
    /\ UNCHANGED kvars

\* a parsed value, or a sum that came back, compared with a parsed value or
\* with Decimal()
OpDecCompare ==
    /\ pc = "decimal"
    /\ \E g \in Memory :
          \E x \in {da} \cup {o.value : o \in {p \in {DecAdd(da, db, h) : h \in Memory} : p.kind = "value"}},
             y \in {db, DecimalDefault} :
              DecCompares(x, y, g)

\* da.integer_part()
OpDecIntegerPart ==
    /\ pc = "decimal"
    /\ \E g \in Memory : r' = integer_part(da, g)
    /\ op' = "dec_integer_part"
    /\ status' = "value"
    /\ pc' = "done"
    /\ UNCHANGED <<a, b, r2, cmp, lhs, rhs, assigned, str, text, num>>
    /\ UNCHANGED dvars
    /\ UNCHANGED kvars

\* da.decimal_weekeq(db, n)
OpDecWeekeq ==
    /\ pc = "decimal"
    /\ \E n \in Precisions, g \in Memory :
          /\ weq' = decimal_weekeq(da, db, n, g).flag
          /\ status' = decimal_weekeq(da, db, n, g).kind
          /\ prec' = n
    /\ op' = "dec_weekeq"
    /\ pc' = "done"
    /\ UNCHANGED <<a, b, r, r2, cmp, lhs, rhs, assigned, str, text, num, da, db, dr, dlhs, drhs>>
    /\ UNCHANGED kvars

\* x + x and x - x: other is bound to the object *this is
SelfAdd == Returns("self_add", Add(a, a))
SelfSub == Returns("self_sub", Sub(a, a))

\* x *= x and x -= x: the value is built from the one object, then assigned
SelfMulAssign == Assigns("self_mul_assign", Mul(a, a))
SelfSubAssign == Assigns("self_sub_assign", Sub(a, a))

\* a Decimal compound assignment *this = *this op other: da is assigned
\* once the operator has returned
DecAssigns(name, out) ==
    /\ pc = "decimal"
    /\ da' = IF out.kind = "value" THEN out.value ELSE da
    /\ op' = name
    /\ status' = out.kind
    /\ pc' = "done"
    /\ UNCHANGED <<a, b, r, r2, cmp, lhs, rhs, assigned, str, text, num, db, dr, prec, dlhs, drhs, weq>>
    /\ UNCHANGED kvars

DecAddAssign == \E g \in Memory : DecAssigns("dec_add_assign", DecAdd(da, db, g))
DecSubAssign == \E g \in Memory : DecAssigns("dec_sub_assign", DecSub(da, db, g))
DecMulAssign == \E g \in Memory : DecAssigns("dec_mul_assign", DecMul(da, db, g))

DecDivAssign ==
    \/ /\ dec_is_zero(db)
       /\ DecAborts("dec_div_assign", prec)
    \/ /\ ~dec_is_zero(db)
       /\ \E g \in Memory : DecAssigns("dec_div_assign", DecDiv(da, db, g))

\* the same with both operands bound to da
DecSelfAdd == \E g \in Memory : DecEnds("dec_self_add", DecAdd(da, da, g), prec)
DecSelfSub == \E g \in Memory : DecEnds("dec_self_sub", DecSub(da, da, g), prec)
DecSelfMulAssign == \E g \in Memory : DecAssigns("dec_self_mul_assign", DecMul(da, da, g))
DecSelfSubAssign == \E g \in Memory : DecAssigns("dec_self_sub_assign", DecSub(da, da, g))

\* to_string() of the Decimal from_string gave
OpDecToString ==
    /\ pc = "done"
    /\ op = "dec_from_string"
    /\ status = "ok"
    /\ text' = decimal_to_string(dr)
    /\ op' = "dec_to_string"
    /\ status' = "value"
    /\ pc' = "formatted"
    /\ UNCHANGED <<a, b, r, r2, cmp, lhs, rhs, assigned, str, num>>
    /\ UNCHANGED dvars
    /\ UNCHANGED kvars

Next ==
    \/ OpNeg \/ OpAbs \/ OpAdd \/ OpSub \/ OpMul \/ OpDiv \/ OpMod
    \/ OpPow \/ OpDivModKernel \/ OpAddSub \/ OpDivMulMod \/ OpCompare
    \/ AddAssign \/ SubAssign \/ MulAssign \/ DivAssign \/ ModAssign
    \/ OpFromString \/ OpToString
    \/ OpToUint64 \/ OpToInt64
    \/ OpDecimal \/ OpDecFromString \/ OpDecToString \/ OpDecNeg \/ OpDecAbs
    \/ OpDecAdd \/ OpDecSub \/ OpDecMul
    \/ OpDecDiv \/ OpDecDivOp \/ OpDecDivRound \/ OpDecPow \/ OpDecCompare
    \/ OpDecIntegerPart \/ OpDecWeekeq
    \/ SelfAdd \/ SelfSub \/ SelfMulAssign \/ SelfSubAssign
    \/ DecAddAssign \/ DecSubAssign \/ DecMulAssign \/ DecDivAssign
    \/ DecSelfAdd \/ DecSelfSub \/ DecSelfMulAssign \/ DecSelfSubAssign

Spec == Init /\ [][Next]_vars

\* ------------------------------------------------------------------------
\* The operations of one Dict<int>
\* ------------------------------------------------------------------------

\* the BigInt part of the state
bvars == <<a, b, r, r2, cmp, lhs, rhs, assigned, str, text>>

\* Dict<int> dict;
DictInit ==
    /\ a = BigIntDefault
    /\ b = BigIntDefault
    /\ r = BigIntDefault
    /\ r2 = BigIntDefault
    /\ cmp = NoCmp
    /\ lhs = BigIntDefault
    /\ rhs = BigIntDefault
    /\ assigned = FALSE
    /\ str = CStr(<<>>)
    /\ text = <<>>
    /\ da = DecimalDefault
    /\ db = DecimalDefault
    /\ dr = DecimalDefault
    /\ prec = 0
    /\ dlhs = DecimalDefault
    /\ drhs = DecimalDefault
    /\ weq = FALSE
    /\ dict = DictNew
    /\ stored = [k \in DictKeys |-> Absent]
    /\ key = NoKey
    /\ val = 0
    /\ num = 0
    /\ op = "init"
    /\ status = "none"
    /\ pc = "dict"

\* a call on dict ends with out; the map holds now for the key out.key
DictCall(name, out, v, now, next) ==
    /\ dict' = out.dict
    /\ stored' = IF out.key = NoKey THEN stored ELSE [stored EXCEPT ![out.key] = now]
    /\ key' = out.key
    /\ val' = v
    /\ num' = out.value
    /\ op' = name
    /\ status' = out.kind
    /\ pc' = next
    /\ UNCHANGED bvars
    /\ UNCHANGED dvars

\* dict.insert(k, v)
OpDictInsert ==
    /\ pc = "dict"
    /\ \E k \in DictKeys, v \in DictValues :
           DictCall("insert", insert(dict, k, v), v, v, "dict")

\* dict[k] = v
OpDictSubscript ==
    /\ pc = "dict"
    /\ \E k \in DictKeys, v \in DictValues :
           DictCall("subscript", subscript_assign(dict, k, v), v, v, "dict")

\* dict.get(k)
OpDictGet ==
    /\ pc = "dict"
    /\ \E k \in DictKeys :
           DictCall("get", get(dict, k), 0, stored[k], "dict")

\* dict.pop(k)
OpDictPop ==
    /\ pc = "dict"
    /\ \E k \in DictKeys :
           DictCall("pop", pop(dict, k), 0, Absent, "dict")

\* dict.popitem(): the String the key was moved from holds any text, the
\* empty one or the key itself
OpDictPopitem ==
    /\ pc = "dict"
    /\ \E left \in {NoKey} \cup DictKeys :
           /\ left \in {NoKey, popitem(dict, NoKey).key}
           /\ DictCall("popitem", popitem(dict, left), 0, Absent, "dict")

\* dict.clear()
OpDictClear ==
    /\ pc = "dict"
    /\ dict' = clear(dict).dict
    /\ stored' = [k \in DictKeys |-> Absent]
    /\ key' = NoKey
    /\ val' = 0
    /\ num' = 0
    /\ op' = "clear"
    /\ status' = "value"
    /\ pc' = "dict"
    /\ UNCHANGED bvars
    /\ UNCHANGED dvars

\* dict.setdefault(k, v), once or again after the operations above; the map
\* is to hold v for a key it did not hold
OpDictSetdefault ==
    /\ pc \in {"dict", "defaulted"}
    /\ \E k \in DictKeys, v \in DictValues :
           DictCall("setdefault", setdefault(dict, k, v), v,
                    IF stored[k] = Absent THEN v ELSE stored[k], "defaulted")

DictNext ==
    \/ OpDictInsert \/ OpDictSubscript \/ OpDictGet
    \/ OpDictPop \/ OpDictPopitem \/ OpDictClear
    \/ OpDictSetdefault

DictSpec == DictInit /\ [][DictNext]_vars

\* ------------------------------------------------------------------------
\* Properties
\* ------------------------------------------------------------------------

\* the operations whose result r is a BigInt
ReturnsBigInt ==
    \/ status = "value" /\ op \in {"neg", "abs", "add", "sub", "mul", "div", "mod",
                                   "addsub", "divmulmod", "divmod"}
    \/ status = "ok" /\ op \in {"pow", "from_string"}

\* the representation invariant of a magnitude
WellFormed(x) ==
    /\ Len(x.data) >= 1
    /\ \A i \in 1..Len(x.data) : x.data[i] >= 0 /\ x.data[i] < BASE
    /\ Len(x.data) > 1 => x.data[Len(x.data)] # 0

\* no negative zero
SignOk(x) == DenotesZero(x) => ~x.negative

\* x denotes the sum of the integers y and z
IsSum(x, y, z) == \A p \in Moduli : IntMod(x, p) = (IntMod(y, p) + IntMod(z, p)) % p

\* x denotes the difference of the integers y and z
IsDifference(x, y, z) ==
    \A p \in Moduli : IntMod(x, p) = (IntMod(y, p) + p - IntMod(z, p)) % p

\* x denotes the product of the integers y and z
IsProduct(x, y, z) == \A p \in Moduli : IntMod(x, p) = (IntMod(y, p) * IntMod(z, p)) % p

\* C1: division identity: for every a and nonzero b, (a / b) * b + (a % b) == a
\* under operator==.
C1_DivisionIdentity == (op = "divmulmod" /\ status = "value") => Eq(r, a)

\* C2: kernel postcondition: unsigned_div_mod(a, b) returns (q, r) with
\* a = q*b + r and 0 <= r < b, so that a / b is the floor of the quotient of
\* non-negative operands.
C2_KernelDivMod ==
    (op = "divmod" /\ status = "value") =>
        /\ SameInt(abs(a), Add(Mul(r, abs(b)), r2))
        /\ ~r2.negative
        /\ IntLess(r2, abs(b))

\* C3: no negative zero: every BigInt an operation or a compound assignment
\* returns has its sign flag false when its magnitude is zero.
C3_NoNegativeZero ==
    /\ ReturnsBigInt => SignOk(r) /\ SignOk(r2)
    /\ assigned => SignOk(a)

\* C4: addition/subtraction inverse: (a + b) - b == a under operator==.
C4_AddSubInverse == (op = "addsub" /\ status = "value") => Eq(r, a)

\* C5: remainder sign and bound: a % b is zero or has the sign of a, and
\* |a % b| < |b|; (-7) % 2 == -1 and 7 % (-2) == 1.
C5_RemainderSign ==
    (op = "mod" /\ status = "value") =>
        /\ is_zero(r) \/ r.negative = a.negative
        /\ IntLess(abs(r), abs(b))
        /\ (a = BigIntFromI64(-7) /\ b = BigIntFromI64(2)) => Eq(r, BigIntFromI64(-1))
        /\ (a = BigIntFromI64(7) /\ b = BigIntFromI64(-2)) => Eq(r, BigIntFromI64(1))

\* C6: magnitude representation invariant: every BigInt of the state (the
\* constructed operands, the results of from_string, of the operations, of pow
\* and of the compound assignments) has a non-empty limb vector, every limb in [0, BASE), and no
\* most-significant zero limb unless it is the single limb 0.
C6_MagnitudeInvariant == WellFormed(a) /\ WellFormed(b) /\ WellFormed(r) /\ WellFormed(r2)

\* a difference of two-limb operands that lost its top limb to trim
C6_Witness ==
    /\ op = "sub" /\ status = "value"
    /\ Len(a.data) = 2 /\ Len(b.data) = 2
    /\ Len(r.data) = 1 /\ ~is_zero(r)

\* C7: addition and subtraction are exact: a + b denotes the integer sum and
\* a - b the integer difference, carries and borrows crossing limbs.
C7_AddSubExact ==
    /\ (op = "add" /\ status = "value") =>
          /\ IsSum(r, a, b)
          /\ Len(r.data) <= Max(Len(a.data), Len(b.data)) + 1
          /\ \A i \in 1..Len(r.data) : r.data[i] < BASE
    /\ (op = "sub" /\ status = "value") =>
          /\ IsDifference(r, a, b)
          /\ Len(r.data) <= Max(Len(a.data), Len(b.data)) + 1
          /\ \A i \in 1..Len(r.data) : r.data[i] < BASE

\* 9999 + 7 = 10006: the carry runs through every limb
C7_Witness ==
    /\ op = "add"
    /\ a = MkBigInt(<<99, 99>>, FALSE)
    /\ b = MkBigInt(<<7>>, FALSE)
    /\ r = MkBigInt(<<6, 0, 1>>, FALSE)

\* C8: multiplication is exact: a * b denotes the integer product, is zero
\* when an operand is zero, and is otherwise negative exactly when the signs
\* of the operands differ.
C8_MulExact ==
    (op = "mul" /\ status = "value") =>
        /\ IsProduct(r, a, b)
        /\ Len(r.data) <= Len(a.data) + Len(b.data)
        /\ \A i \in 1..Len(r.data) : r.data[i] < BASE
        /\ (is_zero(a) \/ is_zero(b)) => (is_zero(r) /\ ~r.negative)
        /\ ~(is_zero(a) \/ is_zero(b)) => (~is_zero(r) /\ (r.negative <=> (a.negative # b.negative)))

\* -9999 * 9999 = -99980001
C8_Witness ==
    /\ op = "mul"
    /\ a = MkBigInt(<<99, 99>>, TRUE)
    /\ b = MkBigInt(<<99, 99>>, FALSE)
    /\ r = MkBigInt(<<1, 0, 98, 99>>, TRUE)

\* C9: comparison is the integer total order: a < b exactly when the integer
\* a denotes is less than that of b, a == b exactly when they denote the
\* same integer, and exactly one of a < b, a == b, a > b holds.
C9_TotalOrder ==
    (op = "compare" /\ status = "value") =>
        /\ cmp.lt <=> IntLess(lhs, rhs)
        /\ cmp.eq <=> SameInt(lhs, rhs)
        /\ cmp.gt <=> IntLess(rhs, lhs)
        /\ \/ (cmp.lt /\ ~cmp.eq /\ ~cmp.gt)
           \/ (~cmp.lt /\ cmp.eq /\ ~cmp.gt)
           \/ (~cmp.lt /\ ~cmp.eq /\ cmp.gt)

\* optional '-' followed by one or more decimal digits
Digits(chars) ==
    IF Len(chars) > 0 /\ chars[1] = MinusSign THEN SubSeq(chars, 2, Len(chars)) ELSE chars
ValidLiteral(s) ==
    /\ ~s.null
    /\ Len(Digits(s.chars)) >= 1
    /\ \A i \in 1..Len(Digits(s.chars)) : Digits(s.chars)[i] \in Zero..Nine

\* the literal with its leading zeros stripped, "0" when nothing is left,
\* and the sign kept only on a nonzero value
Significant(ds) ==
    IF \A i \in 1..Len(ds) : ds[i] = Zero THEN <<>>
    ELSE SubSeq(ds, CHOOSE i \in 1..Len(ds) :
                        ds[i] # Zero /\ \A k \in 1..(i - 1) : ds[k] = Zero, Len(ds))
Canonical(chars) ==
    IF Significant(Digits(chars)) = <<>> THEN <<Zero>>
    ELSE IF chars[1] = MinusSign THEN <<MinusSign>> \o Significant(Digits(chars))
    ELSE Significant(Digits(chars))

\* C10: round trip: for every string of an optional '-' and one or more
\* decimal digits, from_string succeeds and to_string of the result is the
\* string with its leading zeros stripped and its sign normalized ("007"
\* gives "7", "-0" and "-000" give "0"), over several limbs.
C10_RoundTrip ==
    /\ (op = "from_string" /\ ValidLiteral(str)) => status = "ok"
    /\ (op = "to_string" /\ ValidLiteral(str)) => text = Canonical(str.chars)
    /\ (op = "to_string" /\ str = CStr(<<Zero, Zero, Zero + 7>>)) => text = <<Zero + 7>>
    /\ (op = "to_string" /\ str \in {CStr(<<MinusSign, Zero>>),
                                      CStr(<<MinusSign, Zero, Zero, Zero>>)}) => text = <<Zero>>

\* "-7007" is parsed into the limbs 7 and 70 and printed as "-70" and "07"
C10_Witness ==
    /\ op = "to_string"
    /\ str = CStr(<<MinusSign, Zero + 7, Zero, Zero, Zero + 7>>)
    /\ r = MkBigInt(<<7, 70>>, TRUE)
    /\ text = <<MinusSign, Zero + 7, Zero, Zero, Zero + 7>>

\* C11: parse errors: from_string returns an error, never a value and never
\* an abort, for the empty string, for a bare "-" and for every string with
\* a char other than a decimal digit after the optional leading '-'.
C11_ParseErrors ==
    (op = "from_string" /\ ~ValidLiteral(str)) =>
        /\ status = "err"
        /\ pc = "parsed"
        /\ r = BigIntDefault

\* "0a": the leading zero is skipped and the 'a' refused
C11_Witness ==
    /\ op = "from_string"
    /\ str = CStr(<<Zero, Nine + 40>>)
    /\ status = "err"

\* the e-th power of the integer x denotes, modulo p: h is the power for
\* the exponent e \div 2
SquareStep(h, e, xm, p) == (((h * h) % p) * (IF e % 2 = 1 THEN xm ELSE 1)) % p
RECURSIVE IntPowMod(_, _, _)
IntPowMod(x, e, p) ==
    IF e = 0 THEN 1 % p ELSE SquareStep(IntPowMod(x, e \div 2, p), e, IntMod(x, p), p)

\* C12: exponentiation: for every base a and exponent e >= 0 (here e below
\* BASE), a.pow(e) returns ok with the value a^e; 2^10 = 1024, (-2)^3 = -8,
\* a zero base with a positive exponent gives 0 and the exponent 0 gives 1.
C12_PowExact ==
    (op = "pow" /\ ~b.negative /\ Len(b.data) = 1) =>
        /\ status = "ok"
        /\ \A p \in Moduli : IntMod(r, p) = IntPowMod(a, b.data[1], p)
        /\ (a = BigIntFromI64(2) /\ b = BigIntFromI64(10)) => Eq(r, BigIntFromI64(1024))
        /\ (a = BigIntFromI64(-2) /\ b = BigIntFromI64(3)) => Eq(r, BigIntFromI64(-8))
        /\ (is_zero(a) /\ ~is_zero(b)) => is_zero(r)
        /\ is_zero(b) => Eq(r, BigIntFromI64(1))

\* the integer a magnitude of a few limbs denotes
RECURSIVE MagVal(_, _)
MagVal(d, i) == IF i > Len(d) THEN 0 ELSE d[i] + BASE * MagVal(d, i + 1)
IntVal(x) == IF x.negative THEN 0 - MagVal(x.data, 1) ELSE MagVal(x.data, 1)

\* the integer x denotes lies in [lo, hi], lo <= 0 <= hi
Within(x, lo, hi) ==
    /\ ~IntLess(x, MkBigInt(LimbsOf(0 - lo), lo < 0))
    /\ ~IntLess(MkBigInt(LimbsOf(hi), FALSE), x)

\* C13: narrowing to the signed word: to_int64 returns ok(v) with the native
\* value v for every BigInt in [INT64_MIN, INT64_MAX], the minimum and every
\* non-negative value in range included, and a range error outside.
C13_ToInt64 ==
    (op = "to_int64") =>
        /\ Within(a, INT64_MIN, INT64_MAX) => (status = "ok" /\ num = IntVal(a))
        /\ ~Within(a, INT64_MIN, INT64_MAX) => status = "err"

\* C14: narrowing to the unsigned word: to_uint64 returns ok(v) with the
\* native value v exactly when 0 <= v <= UINT64_MAX, and an error when v is
\* negative or above UINT64_MAX.
C14_ToUint64 ==
    (op = "to_uint64") =>
        /\ Within(a, 0, UINT64_MAX) => (status = "ok" /\ num = IntVal(a))
        /\ ~Within(a, 0, UINT64_MAX) => status = "err"

\* the operations that divide by b, and those that divide by db
Divisions == {"div", "mod", "div_assign", "mod_assign"}
DecDivisions == {"dec_div", "dec_divop", "dec_div_round"}

\* C15: division by zero is fatal: a / 0 and a % 0 of BigInt, and div,
\* div_round and operator/ of Decimal with a zero divisor, end in the abort
\* of check; no quotient is computed and neither a value nor an error
\* outcome is returned.
C15_DivisionByZeroFatal ==
    /\ (op \in Divisions /\ DenotesZero(b)) =>
           (status = "abort" /\ pc = "done" /\ r = BigIntDefault)
    /\ (op \in DecDivisions /\ DenotesZero(db.mantissa)) =>
           (status = "abort" /\ pc = "done" /\ dr = DecimalDefault)

\* 1.23 div_round 0 with n = 2 has aborted
C15_Witness ==
    /\ op = "dec_div_round"
    /\ da = Dec(MkBigInt(<<23, 1>>, FALSE), 0 - 2)
    /\ dec_is_zero(db)
    /\ prec = 2
    /\ status = "abort"

\* C16: a negative exponent is a recoverable error: BigInt::pow and
\* Decimal::pow with an exponent below zero return an error outcome for
\* every base, zero included; the process goes on and no power is computed.
C16_NegativeExponent ==
    /\ (op = "pow" /\ IntLess(b, BigIntDefault)) =>
           (status = "err" /\ pc = "done" /\ r = BigIntDefault)
    /\ (op = "dec_pow" /\ IntLess(b, BigIntDefault)) =>
           (status = "err" /\ pc = "done" /\ dr = DecimalDefault)

\* 0.pow(-1) of Decimal has returned an error
C16_Witness ==
    /\ op = "dec_pow"
    /\ dec_is_zero(da)
    /\ b = BigIntFromI64(0 - 1)
    /\ status = "err"

\* the operations that return a Decimal, and the states where one came back
DecResults ==
    {"decimal", "dec_from_string", "dec_neg", "dec_abs", "dec_add", "dec_sub", "dec_mul",
     "dec_div", "dec_divop", "dec_div_round", "dec_pow"}
ReturnsDecimal == op \in DecResults /\ status \in {"value", "ok"}

\* the integer the mantissa denotes is a multiple of 10 (BASE is one)
DivisibleByTen(m) == m.data[1] % 10 = 0

\* the canonical form: a nonzero mantissa is not divisible by 10, a zero
\* mantissa has the exponent 0
Normalized(d) ==
    IF DenotesZero(d.mantissa) THEN d.exponent = 0 ELSE ~DivisibleByTen(d.mantissa)

\* C17: Decimal canonical form: every Decimal returned by a public
\* constructor, from_string, unary minus, abs, +, -, *, /, div, div_round or
\* pow is normalized: a nonzero mantissa is not divisible by 10 and a zero
\* mantissa has the exponent 0.
C17_CanonicalForm == ReturnsDecimal => Normalized(dr)

\* the limbs of ten times the magnitude d, in exact arithmetic
RECURSIVE TimesTen(_, _, _, _)
TimesTen(d, i, carry, acc) ==
    IF i <= Len(d)
    THEN TimesTen(d, i + 1, (d[i] * 10 + carry) \div BASE,
                  Append(acc, (d[i] * 10 + carry) % BASE))
    ELSE IF carry > 0 THEN Append(acc, carry) ELSE acc

\* x * 10^k, in exact arithmetic
RECURSIVE ScaleExact(_, _)
ScaleExact(x, k) ==
    IF k <= 0 THEN x ELSE ScaleExact(MkBigInt(TimesTen(x.data, 1, 0, <<>>), x.negative), k - 1)

\* the mantissa of x brought to the smaller of the exponents of x and y
Aligned(x, y) == ScaleExact(x.mantissa, x.exponent - Min(x.exponent, y.exponent))

\* x and y denote the same number, and x denotes a smaller number than y
ValueEq(x, y) == SameInt(Aligned(x, y), Aligned(y, x))
ValueLess(x, y) == IntLess(Aligned(x, y), Aligned(y, x))

\* C18: Decimal comparison follows the numeric value: for Decimals a and b
\* from from_string or from Decimal arithmetic, a == b holds exactly when
\* mantissa_a * 10^exp_a equals mantissa_b * 10^exp_b and a < b exactly when
\* the first value is smaller, whatever the exponents are.
C18_ComparisonByValue ==
    op = "dec_compare" =>
        /\ cmp.eq <=> ValueEq(dlhs, drhs)
        /\ cmp.lt <=> ValueLess(dlhs, drhs)

\* the limbs of k times the magnitude d for a limb k, in exact arithmetic
RECURSIVE MagTimes(_, _, _, _, _)
MagTimes(d, k, i, carry, acc) ==
    IF i <= Len(d)
    THEN MagTimes(d, k, i + 1, (d[i] * k + carry) \div BASE,
                  Append(acc, (d[i] * k + carry) % BASE))
    ELSE IF carry > 0 THEN Append(acc, carry) ELSE acc

\* the limbs of the sum of the magnitudes dx and dy, in exact arithmetic
RECURSIVE MagAdd(_, _, _, _, _)
MagAdd(dx, dy, i, carry, acc) ==
    IF i <= Len(dx) \/ i <= Len(dy)
    THEN MagAdd(dx, dy, i + 1,
                ((IF i <= Len(dx) THEN dx[i] ELSE 0) + (IF i <= Len(dy) THEN dy[i] ELSE 0) + carry)
                    \div BASE,
                Append(acc, ((IF i <= Len(dx) THEN dx[i] ELSE 0)
                                 + (IF i <= Len(dy) THEN dy[i] ELSE 0) + carry) % BASE))
    ELSE IF carry > 0 THEN Append(acc, carry) ELSE acc

MagSum(dx, dy) == MagAdd(dx, dy, 1, 0, <<>>)

\* the limbs of the product of the magnitudes dx and dy: dy[i..] times dx
RECURSIVE MagMul(_, _, _)
MagMul(dx, dy, i) ==
    IF i > Len(dy) THEN <<0>>
    ELSE MagSum(MagTimes(dx, dy[i], 1, 0, <<>>), <<0>> \o MagMul(dx, dy, i + 1))

MagProduct(dx, dy) == MagMul(dx, dy, 1)

\* the limbs of the magnitude d divided by ten, in exact arithmetic: i runs
\* from the most significant limb down
RECURSIVE MagDivTen(_, _, _, _)
MagDivTen(d, i, rem, acc) ==
    IF i >= 1
    THEN MagDivTen(d, i - 1, (rem * BASE + d[i]) % 10, <<(rem * BASE + d[i]) \div 10>> \o acc)
    ELSE PopZeros(acc)

\* the Decimal that denotes the same number as q with no trailing zero in
\* its mantissa
RECURSIVE Reduced(_)
Reduced(q) ==
    IF DenotesZero(q.mantissa) THEN Dec(BigIntFromI64(0), 0)
    ELSE IF DivisibleByTen(q.mantissa)
    THEN Reduced(Dec(MkBigInt(MagDivTen(q.mantissa.data, Len(q.mantissa.data), 0, <<>>),
                              q.mantissa.negative),
                     q.exponent + 1))
    ELSE q

\* q denotes no digit below 10^(-n), and its sign is that of x / y unless it
\* denotes 0
QuotientShape(x, y, n, q) ==
    /\ Reduced(q).exponent + n >= 0
    /\ ~DenotesZero(q.mantissa) => (q.mantissa.negative <=> (x.mantissa.negative # y.mantissa.negative))

\* |x / y| * 10^n and |q| * 10^n, each times the aligned |y|
Scaled(x, y, n) == ScaleExact(Aligned(x, y), n).data
Claimed(x, y, n, q) ==
    MagProduct(ScaleExact(Reduced(q).mantissa, Reduced(q).exponent + n).data, Aligned(y, x).data)

\* q = trunc((x / y) * 10^n) * 10^(-n), toward zero:
\* |q| 10^n |y| <= |x| 10^n < (|q| 10^n + 1) |y|
Truncated(x, y, n, q) ==
    /\ QuotientShape(x, y, n, q)
    /\ ~MagLess(Scaled(x, y, n), Claimed(x, y, n, q))
    /\ MagLess(Scaled(x, y, n), MagSum(Claimed(x, y, n, q), Aligned(y, x).data))

\* C19: scaled division truncates: for every Decimal a, nonzero Decimal b
\* and n >= 0, a.div(b, n) denotes trunc((a / b) * 10^n) * 10^(-n),
\* truncated toward zero and never rounded, and operator/ is div with n = 10.
C19_DivTruncates ==
    /\ (op = "dec_div" /\ status = "value") => Truncated(da, db, prec, dr)
    /\ (op = "dec_divop" /\ status = "value") => Truncated(da, db, DefaultPrecision, dr)

\* q = sign(x / y) * floor(|x / y| * 10^n + 1/2) * 10^(-n):
\* 2 |q| 10^n |y| <= 2 |x| 10^n + |y| and 2 |x| 10^n < 2 |q| 10^n |y| + |y|
RoundedHalfUp(x, y, n, q) ==
    /\ QuotientShape(x, y, n, q)
    /\ ~MagLess(MagSum(MagSum(Scaled(x, y, n), Scaled(x, y, n)), Aligned(y, x).data),
                MagSum(Claimed(x, y, n, q), Claimed(x, y, n, q)))
    /\ MagLess(MagSum(Scaled(x, y, n), Scaled(x, y, n)),
               MagSum(MagSum(Claimed(x, y, n, q), Claimed(x, y, n, q)), Aligned(y, x).data))

\* C20: rounding division is half-up away from zero with the sign kept: for
\* every Decimal a, nonzero Decimal b and n >= 0, a.div_round(b, n) denotes
\* sign(a / b) * floor(|a / b| * 10^n + 1/2) * 10^(-n), for quotients of
\* either sign and when the carry runs into the integer part.
C20_DivRoundHalfUp ==
    (op = "dec_div_round" /\ status = "value") => RoundedHalfUp(da, db, prec, dr)

\* the mantissa of q at the exponent e, once q has no trailing zero
AtExponent(q, e) == ScaleExact(Reduced(q).mantissa, Reduced(q).exponent - e)

\* q has no digit below 10^e
Reaches(q, e) == DenotesZero(q.mantissa) \/ Reduced(q).exponent >= e

\* q denotes x + y, x - y, x * y
ExactSum(x, y, q) ==
    /\ Reaches(q, Min(x.exponent, y.exponent))
    /\ IsSum(AtExponent(q, Min(x.exponent, y.exponent)), Aligned(x, y), Aligned(y, x))
ExactDifference(x, y, q) ==
    /\ Reaches(q, Min(x.exponent, y.exponent))
    /\ IsDifference(AtExponent(q, Min(x.exponent, y.exponent)), Aligned(x, y), Aligned(y, x))
ExactProduct(x, y, q) ==
    /\ Reaches(q, x.exponent + y.exponent)
    /\ IsProduct(AtExponent(q, x.exponent + y.exponent), x.mantissa, y.mantissa)

\* C21: Decimal addition, subtraction and multiplication are exact: for all
\* Decimals a and b, with equal or different exponents, a + b, a - b and
\* a * b return and denote the sum, the difference and the product of the
\* denoted values.
C21_DecArithmeticExact ==
    /\ op = "dec_add" => (status = "value" /\ ExactSum(da, db, dr))
    /\ op = "dec_sub" => (status = "value" /\ ExactDifference(da, db, dr))
    /\ op = "dec_mul" => (status = "value" /\ ExactProduct(da, db, dr))

\* q denotes the k-th power of x: the mantissa of q at the exponent
\* x.exponent * k agrees with x.mantissa^k modulo each of the Moduli
ExactPower(x, k, q) ==
    /\ Reaches(q, x.exponent * k)
    /\ \A p \in Moduli : IntMod(AtExponent(q, x.exponent * k), p) = IntPowMod(x.mantissa, k, p)

\* C22: Decimal exponentiation: for every Decimal m * 10^e and every BigInt
\* k >= 0, pow(k) returns ok with the value m^k * 10^(e*k) whenever e*k fits
\* an int, negative exactly when m is negative and k is odd and 1 when
\* k = 0, and returns an error when e*k lies outside the range of int.
C22_DecPowExact ==
    (op = "dec_pow" /\ ~IntLess(b, BigIntDefault)) =>
        IF da.exponent * IntVal(b) >= INT_MIN /\ da.exponent * IntVal(b) <= INT_MAX
        THEN /\ status = "ok"
             /\ ExactPower(da, IntVal(b), dr)
             /\ ~DenotesZero(dr.mantissa) =>
                    (dr.mantissa.negative <=> (da.mantissa.negative /\ IntVal(b) % 2 = 1))
        ELSE status = "err"

\* the parts of a Decimal literal: the text after the sign, the text before
\* and after the first 'e' or 'E', and the digits before and after the '.'
Body(chars) ==
    IF Len(chars) > 0 /\ chars[1] \in {MinusSign, Plus} THEN SubSeq(chars, 2, Len(chars))
    ELSE chars
ExpAt(chars) == Find(Body(chars), {LowerE, UpperE}, 1)
MantText(chars) ==
    IF ExpAt(chars) = 0 THEN Body(chars) ELSE SubSeq(Body(chars), 1, ExpAt(chars) - 1)
ExpText(chars) ==
    IF ExpAt(chars) = 0 THEN <<>> ELSE SubSeq(Body(chars), ExpAt(chars) + 1, Len(Body(chars)))
ExpDigits(chars) ==
    IF Len(ExpText(chars)) > 0 /\ ExpText(chars)[1] \in {MinusSign, Plus}
    THEN SubSeq(ExpText(chars), 2, Len(ExpText(chars)))
    ELSE ExpText(chars)
DotAt(chars) == Find(MantText(chars), {Dot}, 1)
IntText(chars) ==
    IF DotAt(chars) = 0 THEN MantText(chars) ELSE SubSeq(MantText(chars), 1, DotAt(chars) - 1)
FracText(chars) ==
    IF DotAt(chars) = 0 THEN <<>>
    ELSE SubSeq(MantText(chars), DotAt(chars) + 1, Len(MantText(chars)))

\* chars are decimal digits only
DigitsOnly(chars) == \A i \in 1..Len(chars) : chars[i] \in Zero..Nine

\* a Decimal literal: an optional sign, digits with at most one decimal
\* point that has a digit after it, and an optional exponent of 'e' or 'E',
\* an optional sign and one digit or more
DecimalLiteral(s) ==
    /\ ~s.null
    /\ DigitsOnly(IntText(s.chars)) /\ DigitsOnly(FracText(s.chars))
    /\ IF DotAt(s.chars) = 0 THEN Len(IntText(s.chars)) >= 1 ELSE Len(FracText(s.chars)) >= 1
    /\ ExpAt(s.chars) # 0 => (Len(ExpDigits(s.chars)) >= 1 /\ DigitsOnly(ExpDigits(s.chars)))

\* the power of ten the last digit of the literal stands at
LastPlace(chars) ==
    (IF Len(ExpText(chars)) > 0 /\ ExpText(chars)[1] = MinusSign
     THEN 0 - DigitsVal(ExpDigits(chars), 1, 0) ELSE DigitsVal(ExpDigits(chars), 1, 0))
        - Len(FracText(chars))

\* the digits ds, the last one at 10^k with k < 0, with zeros in front so
\* that one digit at least stands before the decimal point
Whole(ds, k) == Fill(((0 - k) - Len(ds)) + 1, Zero) \o ds

\* the digits after the decimal point, or nothing
Fraction(fs) == IF DropZeros(fs) = <<>> THEN <<>> ELSE <<Dot>> \o DropZeros(fs)

\* the plain rendering of the nonzero number with the digits ds, the last
\* one at 10^k
Rendering(ds, k) ==
    IF k >= 0 THEN ds \o Fill(k, Zero)
    ELSE SubSeq(Whole(ds, k), 1, Len(Whole(ds, k)) + k)
             \o Fraction(SubSeq(Whole(ds, k), Len(Whole(ds, k)) + k + 1, Len(Whole(ds, k))))

\* the plain rendering of the number a literal denotes
PlainText(chars) ==
    IF Significant(IntText(chars) \o FracText(chars)) = <<>> THEN <<Zero>>
    ELSE (IF chars[1] = MinusSign THEN <<MinusSign>> ELSE <<>>)
             \o Rendering(Significant(IntText(chars) \o FracText(chars)), LastPlace(chars))

\* C23: Decimal parse and format: from_string accepts every Decimal literal
\* and to_string of the parsed value is the plain rendering of the number:
\* no exponent notation, no trailing fractional zeros, a leading '-' only
\* for negative non-zero values and "0" for zero; a text that is no literal
\* yields an error.
C23_ParseFormat ==
    /\ (op = "dec_from_string" /\ DecimalLiteral(str)) => status = "ok"
    /\ (op = "dec_from_string" /\ ~DecimalLiteral(str)) => status = "err"
    /\ op = "dec_to_string" => text = PlainText(str.chars)

\* the magnitude of i, as a BigInt
Magnitude(i) == MkBigInt(i.data, FALSE)

\* i is the integer d denotes with its fraction cut off, toward zero:
\* i = m * 10^e for e >= 0, and |i| 10^(-e) <= |m| < (|i| + 1) 10^(-e) with
\* the sign of m for e < 0
IntegerPartOf(d, i) ==
    IF d.exponent >= 0 THEN SameInt(i, ScaleExact(d.mantissa, d.exponent))
    ELSE /\ ~MagLess(d.mantissa.data, ScaleExact(Magnitude(i), 0 - d.exponent).data)
         /\ MagLess(d.mantissa.data,
                    ScaleExact(MkBigInt(MagSum(i.data, <<1>>), FALSE), 0 - d.exponent).data)
         /\ ~DenotesZero(i) => (i.negative <=> d.mantissa.negative)

\* C24: integer_part truncates toward zero: for every Decimal with mantissa
\* m and exponent e, integer_part() returns m * 10^e when e >= 0 and the
\* quotient of m by 10^(-e) truncated toward zero when e < 0.
C24_IntegerPart == op = "dec_integer_part" => IntegerPartOf(da, r)

\* m * 10^k cut to an integer, toward zero, in exact arithmetic
RECURSIVE TruncExact(_, _)
TruncExact(m, k) ==
    IF k >= 0 THEN ScaleExact(m, k)
    ELSE TruncExact(MkBigInt(MagDivTen(m.data, Len(m.data), 0, <<>>), m.negative), k + 1)

\* the fraction of d times 10^n, cut to an integer: trunc(d 10^n) - trunc(d) 10^n
FractionDigits(d, n, p) ==
    (IntMod(TruncExact(d.mantissa, d.exponent + n), p) + p
         - IntMod(ScaleExact(TruncExact(d.mantissa, d.exponent), n), p)) % p

\* the integer parts are equal, and so are the fractions cut after n digits
WeekEqual(x, y, n) ==
    /\ SameInt(TruncExact(x.mantissa, x.exponent), TruncExact(y.mantissa, y.exponent))
    /\ \A p \in Moduli : FractionDigits(x, n, p) = FractionDigits(y, n, p)

\* C25: fuzzy fractional equality: for all Decimals a, b and n >= 0,
\* a.decimal_weekeq(b, n) returns true exactly when the integer parts of a
\* and b are equal and their fractional parts, each multiplied by 10^n and
\* truncated to an integer, are equal.
C25_WeekEq ==
    (op = "dec_weekeq" /\ prec >= 0) => (status = "value" /\ (weq <=> WeekEqual(da, db, prec)))

\* the binary operators and the comparisons, the compound assignments of
\* BigInt and those of Decimal
BinaryOperators ==
    {"add", "sub", "mul", "div", "mod", "compare", "self_add", "self_sub",
     "dec_add", "dec_sub", "dec_mul", "dec_div", "dec_divop", "dec_compare",
     "dec_self_add", "dec_self_sub"}
BigIntAssignments ==
    {"add_assign", "sub_assign", "mul_assign", "div_assign", "mod_assign",
     "self_mul_assign", "self_sub_assign"}
DecimalAssignments ==
    {"dec_add_assign", "dec_sub_assign", "dec_mul_assign", "dec_div_assign",
     "dec_self_mul_assign", "dec_self_sub_assign"}

\* the Decimals an operation that came back may have returned
Outcomes(outs) == {o.value : o \in {p \in outs : p.kind = "value"}}

\* one step of an operator, of a compound assignment, or of either with the
\* two operands the same object: the operands before the step are the
\* independent copies
OperandsKept ==
    /\ op' \in BinaryOperators => (a' = a /\ b' = b /\ da' = da /\ db' = db)
    /\ op' \in BigIntAssignments => (b' = b /\ da' = da /\ db' = db)
    /\ op' \in DecimalAssignments => (a' = a /\ b' = b /\ db' = db)
    /\ op' = "self_add" => r' = Add(a, a)
    /\ op' = "self_sub" => r' = Sub(a, a)
    /\ op' = "self_mul_assign" => a' = Mul(a, a)
    /\ op' = "self_sub_assign" => a' = Sub(a, a)
    /\ (op' = "dec_self_add" /\ status' = "value") =>
           dr' \in Outcomes({DecAdd(da, da, g) : g \in Memory})
    /\ (op' = "dec_self_sub" /\ status' = "value") =>
           dr' \in Outcomes({DecSub(da, da, g) : g \in Memory})
    /\ (op' = "dec_self_mul_assign" /\ status' = "value") =>
           da' \in Outcomes({DecMul(da, da, g) : g \in Memory})
    /\ (op' = "dec_self_sub_assign" /\ status' = "value") =>
           da' \in Outcomes({DecSub(da, da, g) : g \in Memory})

Has(d, k) == get(d, k).kind = "ok"

\* what setdefault is to do in a step that gives it key' and val'
SetDefaultStep ==
    op' = "setdefault" =>
        /\ status' = "value"
        /\ IF Has(dict, key')
           THEN /\ num' = get(dict, key').value
                /\ get(dict', key') = get(dict, key')
                /\ dict'.size_ = dict.size_
           ELSE /\ num' = val'
                /\ Has(dict', key')
                /\ get(dict', key').value = val'
                /\ dict'.size_ = dict.size_ + 1

\* C27: Dict::setdefault(key, d): when key is absent it inserts key with
\* value d and returns a reference to d; when key is present it returns the
\* existing value and changes neither that value nor the size.
C27_SetDefault == [][SetDefaultStep]_vars

\* the keys stored and not removed since
Kept == {k \in DictKeys : stored[k] # Absent}

\* C28: after any sequence of insert, operator[] assignment, pop, popitem and
\* clear on one Dict, get(k) returns ok with the value most recently stored
\* for k if k was stored and not removed since, and an error otherwise, and
\* size() equals the number of such keys.
C28_DictIsMap ==
    pc = "dict" =>
        /\ \A k \in DictKeys :
               IF k \in Kept
               THEN get(dict, k).kind = "ok" /\ get(dict, k).value = stored[k]
               ELSE get(dict, k).kind = "err"
        /\ dict.size_ = Cardinality(Kept)

\* the slot where the probing for k starts
Home(d, k) == hash_string(k) % Len(d.entries_)

\* a table that was rehashed, where a key is found past the tombstone of a
\* key that collided with it
C28_Witness ==
    /\ pc = "dict"
    /\ Len(dict.entries_) > InitialCapacity
    /\ \E k \in Kept :
           /\ dict.entries_[Home(dict, k) + 1].state = "Deleted"
           /\ find_index(dict, k) # Home(dict, k)
    /\ Cardinality(Kept) >= 2

\* the C++ index idx is an element of a vector of len elements
Inside(idx, len) == idx >= 0 /\ idx < len

\* the size of the dividend copy u when the main loop starts
ScaledLen(ad, d) == IF d > 1 THEN Len(PushCarry(ScaleLoop(ad, d, 0, 0))) ELSE Len(ad)

\* the indices of u (ulen limbs) and v (n limbs) one pass of the main loop
\* uses for quotient position j, and the slot of the digit it stores
PassInside(ulen, n, j, slots) ==
    /\ Inside(j + n, ulen) /\ Inside(j + n - 1, ulen) /\ Inside(j + n - 2, ulen)
    /\ Inside(n - 1, n) /\ Inside(n - 2, n)
    /\ \A i \in 0..(n - 1) : Inside(j + i, ulen) /\ Inside(i, n)
    /\ Inside(j, slots)

\* every pass of the main loop of unsigned_div_mod(x, y), j = m - n down to 0
DivInside(x, y) ==
    \A j \in 0..(Len(x.data) - 1 - Len(y.data)) :
        PassInside(ScaledLen(x.data, ToDigit(BASE \div ToDigit(y.data[Len(y.data)] + 1))),
                   Len(y.data), j, Len(x.data) - Len(y.data))

\* C29: memory safety of long division: in unsigned_div_mod, for every
\* dividend a >= b and every nonzero divisor b of limb length n >= 1, every
\* index used to read or write the dividend copy u and the divisor copy v
\* lies within the bounds of its vector, and the quotient vector has one slot
\* for every quotient digit produced.
C29_DivMemorySafe ==
    (op = "divmod" /\ ~abs_less(abs(a), abs(b))) => DivInside(abs(a), abs(b))

\* the operations that end in Decimal::normalize
Normalizing ==
    {"decimal", "dec_from_string", "dec_add", "dec_sub", "dec_mul", "dec_div", "dec_divop",
     "dec_div_round", "dec_pow", "dec_add_assign", "dec_sub_assign", "dec_mul_assign",
     "dec_div_assign", "dec_self_add", "dec_self_sub", "dec_self_mul_assign",
     "dec_self_sub_assign"}

\* C30: normalization terminates: for every Decimal (mantissa, exponent) pair
\* reaching Decimal::normalize, from from_string, the BigInt constructor or
\* any arithmetic operation, the loop that divides the mantissa by 10 ends
\* after finitely many iterations and never drives a nonzero mantissa to zero.
C30_NormalizeTerminates ==
    /\ op \in Normalizing => status # "hang"
    /\ (op = "decimal" /\ status = "value" /\ ~DenotesZero(a)) => ~DenotesZero(dr.mantissa)

====
